---- MODULE Spec2Model ----
(***************************************************************************)
(* Domain-aware document chunking engine (backend/src/documents).          *)
(*                                                                         *)
(* Text is a sequence of one-character strings.  Section contents are      *)
(* built over the alphabet  a A . @ space newline : a lower-case word      *)
(* character, an upper-case one, a sentence terminator, the character of   *)
(* a Python decorator, and the two kinds of whitespace the code tells      *)
(* apart (str.split() / \s take both, split("\n") only the newline).       *)
(* tiktoken is not installed with the repository, so count_tokens takes    *)
(* its ImportError branch: len(text) // 4.                                 *)
(***************************************************************************)
EXTENDS Integers, Sequences, FiniteSets, TLC

VARIABLES
    max_tokens,      \* DomainAwareChunker.max_tokens (= registry.max_tokens)
    overlap_tokens,  \* DomainAwareChunker.overlap_tokens
    strategy,        \* DomainAwareChunker.strategy
    sections,        \* argument of chunk(): sequence of DocumentSection
    source,          \* argument of chunk(): the source string
    pc,              \* position inside DomainAwareChunker.chunk
    selected,        \* local `strategy` of chunk() (result of _get_strategy)
    chunker,         \* local `chunker` of chunk() (result of create_chunker)
    chunks,          \* the returned list[Chunk]
    packing,         \* history: for chunks[i], how the packing loop built it
    error,           \* the exception chunk() raised, "" when none
    uuids,           \* number of uuid4() values drawn so far
    calls            \* chunk() calls in progress on the instance, step by
                     \* step: call id -> the frame of the call

vars == <<max_tokens, overlap_tokens, strategy, sections, source, pc,
          selected, chunker, chunks, packing, error, uuids, calls>>

NoneVal == "None"
\* the local `chunker` of chunk() before create_chunker has returned
NoChunker == [kind |-> NoneVal, max_tokens |-> 0, overlap_tokens |-> 0]

(***************************************************************************)
(* Bounds of the model.                                                    *)
(***************************************************************************)
MaxSize == 4   \* sections plus words of the section list of one chunk() call

(***************************************************************************)
(* A local variable of the code that is assigned once and read many times  *)
(* is bound as the element of a one-element set,                           *)
(*     Only({body : local \in {value}}),                                   *)
(* so that its value is computed once wherever the operator is evaluated.  *)
(***************************************************************************)
Only(S) == CHOOSE x \in S : TRUE

(***************************************************************************)
(* Python string primitives.                                               *)
(***************************************************************************)
Min(a, b) == IF a <= b THEN a ELSE b
Max(a, b) == IF a >= b THEN a ELSE b

IsSpace(c) == c \in {" ", "\n"}
IsUpper(c) == c \in {"A", "G", "O"}
IsWordChar(c) == c \in {"a", "A"}
IsTerminator(c) == c \in {".", "!", "?"}

\* str.lower() on one character
LowerChar(c) == CASE c = "A" -> "a" [] c = "G" -> "g" [] c = "O" -> "o"
                  [] OTHER -> c
lower(s) == [i \in 1..Len(s) |-> LowerChar(s[i])]

\* lst[-n:] of Python for 0 <= n <= len(lst): the whole list when n = 0
PyLast(lst, n) == IF n = 0 THEN lst ELSE SubSeq(lst, Len(lst) - n + 1, Len(lst))

RECURSIVE LStripFrom(_, _)
LStripFrom(s, i) ==
    IF i > Len(s) THEN <<>>
    ELSE IF IsSpace(s[i]) THEN LStripFrom(s, i + 1)
    ELSE SubSeq(s, i, Len(s))
lstrip(s) == LStripFrom(s, 1)

RECURSIVE RStripTo(_, _)
RStripTo(s, j) ==
    IF j < 1 THEN <<>>
    ELSE IF IsSpace(s[j]) THEN RStripTo(s, j - 1)
    ELSE SubSeq(s, 1, j)
strip(s) == RStripTo(lstrip(s), Len(lstrip(s)))

\* sep.join(parts)
RECURSIVE join(_, _)
join(sep, parts) ==
    IF parts = <<>> THEN <<>>
    ELSE IF Len(parts) = 1 THEN parts[1]
    ELSE parts[1] \o sep \o join(sep, Tail(parts))

\* s.split("\n"): every newline separates, empty pieces are kept
RECURSIVE SplitNl(_, _, _)
SplitNl(s, i, cur) ==
    IF i > Len(s) THEN <<cur>>
    ELSE IF s[i] = "\n" THEN <<cur>> \o SplitNl(s, i + 1, <<>>)
    ELSE SplitNl(s, i + 1, Append(cur, s[i]))
split_lines(s) == SplitNl(s, 1, <<>>)

\* s.split(): runs of whitespace separate, no empty pieces
RECURSIVE SplitWs(_, _, _)
SplitWs(s, i, cur) ==
    IF i > Len(s) THEN (IF cur = <<>> THEN <<>> ELSE <<cur>>)
    ELSE IF IsSpace(s[i])
         THEN (IF cur = <<>> THEN <<>> ELSE <<cur>>) \o SplitWs(s, i + 1, <<>>)
    ELSE SplitWs(s, i + 1, Append(cur, s[i]))
split(s) == SplitWs(s, 1, <<>>)

\* first index >= i of s that holds no whitespace (Len(s) + 1 when none)
RECURSIVE SkipSpace(_, _)
SkipSpace(s, i) ==
    IF i <= Len(s) /\ IsSpace(s[i]) THEN SkipSpace(s, i + 1) ELSE i

(***************************************************************************)
(* count_tokens / _estimate_tokens.                                        *)
(***************************************************************************)
CharsPerToken == 4
count_tokens(text) == Len(text) \div CharsPerToken
_estimate_tokens(text) == count_tokens(text)

RECURSIVE SumTokens(_)
SumTokens(parts) ==
    IF parts = <<>> THEN 0
    ELSE _estimate_tokens(Head(parts)) + SumTokens(Tail(parts))

(***************************************************************************)
(* _split_into_sentences: re.split on                                      *)
(*   (?<=[.!?])\s+(?=[A-Z])  |  (?<=[.!?])\s*$                             *)
(* of the stripped text, pieces stripped, empty pieces dropped.  The first *)
(* alternative matches a whole whitespace run that follows a terminator    *)
(* and precedes an upper-case letter; the second matches the empty string  *)
(* at the end of a text that ends in a terminator, which only adds an      *)
(* empty last piece.                                                       *)
(***************************************************************************)
RECURSIVE SentencePieces(_, _, _)
SentencePieces(t, i, cur) ==
    IF i > Len(t) THEN <<cur>>
    ELSE IF /\ IsSpace(t[i])
            /\ i > 1
            /\ IsTerminator(t[i - 1])
            /\ SkipSpace(t, i) <= Len(t)
            /\ IsUpper(t[SkipSpace(t, i)])
         THEN <<cur>> \o SentencePieces(t, SkipSpace(t, i), <<>>)
    ELSE SentencePieces(t, i + 1, Append(cur, t[i]))

RECURSIVE DropBlank(_)
DropBlank(parts) ==
    IF parts = <<>> THEN <<>>
    ELSE IF strip(Head(parts)) = <<>> THEN DropBlank(Tail(parts))
    ELSE <<strip(Head(parts))>> \o DropBlank(Tail(parts))

_split_into_sentences(text) ==
    Only({DropBlank(raw) :
            raw \in {IF t # <<>> /\ IsTerminator(t[Len(t)])
                     THEN Append(pieces, <<>>) ELSE pieces :
                        t \in {strip(text)},
                        pieces \in {SentencePieces(strip(text), 1, <<>>)}}})

(***************************************************************************)
(* _get_overlap_sentences: walk back from the end while the running sum    *)
(* of per-sentence estimates stays within overlap_tokens.                  *)
(***************************************************************************)
RECURSIVE OverlapWalk(_, _, _, _, _)
OverlapWalk(sentences, j, overlap, tokens, ov) ==
    IF j < 1 THEN overlap
    ELSE IF tokens + _estimate_tokens(sentences[j]) <= ov
         THEN OverlapWalk(sentences, j - 1, <<sentences[j]>> \o overlap,
                          tokens + _estimate_tokens(sentences[j]), ov)
    ELSE overlap

\* faulty variant: a sentence that does not fit is skipped and the walk goes
\* on (continue for break)
RECURSIVE OverlapWalk_skipping(_, _, _, _, _)
OverlapWalk_skipping(sentences, j, overlap, tokens, ov) ==
    IF j < 1 THEN overlap
    ELSE IF tokens + _estimate_tokens(sentences[j]) <= ov
         THEN OverlapWalk_skipping(sentences, j - 1, <<sentences[j]>> \o overlap,
                                   tokens + _estimate_tokens(sentences[j]), ov)
    ELSE OverlapWalk_skipping(sentences, j - 1, overlap, tokens, ov)
_get_overlap_sentences_skipping(sentences, ov) ==
    OverlapWalk_skipping(sentences, Len(sentences), <<>>, 0, ov)

_get_overlap_sentences(sentences, ov) ==
    OverlapWalk(sentences, Len(sentences), <<>>, 0, ov)

(***************************************************************************)
(* A piece is what one _create_chunk call of a packing loop is given: the  *)
(* content, and (history) the units the loop joined into it, how many of   *)
(* them were carried over from the chunk closed before, and the loop.      *)
(***************************************************************************)
Piece(content, kind, units, carried, language) ==
    [content |-> content, kind |-> kind, units |-> units, carried |-> carried,
     language |-> language]
Whole(content, language) == Piece(content, "whole", <<content>>, 0, language)

\* the estimate of word + " " summed over words (chunker.py:201-203)
RECURSIVE SumWordTokens(_)
SumWordTokens(words) ==
    IF words = <<>> THEN 0
    ELSE _estimate_tokens(Head(words) \o <<" ">>) + SumWordTokens(Tail(words))

(***************************************************************************)
(* StructureAwareChunker._split_long_sentence                              *)
(***************************************************************************)
RECURSIVE LongSentenceLoop(_, _, _, _, _, _, _)
LongSentenceLoop(words, i, current_words, carried, current_tokens, mt, ov) ==
    IF i > Len(words)
    THEN IF current_words # <<>>
         THEN <<Piece(join(<<" ">>, current_words), "words", current_words,
                      carried, NoneVal)>>
         ELSE <<>>
    ELSE
      LET word == words[i]
          word_tokens == _estimate_tokens(word \o <<" ">>)
      IN IF current_tokens + word_tokens > mt /\ current_words # <<>>
         THEN LET overlap_word_count == Min(Len(current_words), ov \div 2)
                  kept == PyLast(current_words, overlap_word_count)
                  next_words == Append(kept, word)
              IN <<Piece(join(<<" ">>, current_words), "words", current_words,
                         carried, NoneVal)>>
                 \o LongSentenceLoop(words, i + 1, next_words, Len(kept),
                                     SumWordTokens(next_words), mt, ov)
         ELSE LongSentenceLoop(words, i + 1, Append(current_words, word),
                               carried, current_tokens + word_tokens, mt, ov)

\* faulty variant: the last chunk is forgotten (no flush after the loop)
_split_long_sentence_noflush(sentence, mt, ov) ==
    LET ps == LongSentenceLoop(split(sentence), 1, <<>>, 0, 0, mt, ov)
    IN SubSeq(ps, 1, Len(ps) - 1)

_split_long_sentence(sentence, mt, ov) ==
    Only({LongSentenceLoop(words, 1, <<>>, 0, 0, mt, ov) :
            words \in {split(sentence)}})

(***************************************************************************)
(* StructureAwareChunker._split_content                                    *)
(***************************************************************************)
\* faulty variant: the chunk is closed when the next sentence would fill the
\* budget exactly (>= for >)
RECURSIVE SplitContentLoop_early(_, _, _, _, _, _, _)
SplitContentLoop_early(sentences, i, current_chunk, carried, current_tokens, mt, ov) ==
    IF i > Len(sentences)
    THEN IF current_chunk # <<>>
         THEN <<Piece(join(<<" ">>, current_chunk), "sentences", current_chunk,
                      carried, NoneVal)>>
         ELSE <<>>
    ELSE
      LET sentence == sentences[i]
          sentence_tokens == _estimate_tokens(sentence)
      IN IF sentence_tokens > mt
         THEN (IF current_chunk # <<>>
               THEN <<Piece(join(<<" ">>, current_chunk), "sentences",
                            current_chunk, carried, NoneVal)>>
               ELSE <<>>)
              \o _split_long_sentence(sentence, mt, ov)
              \o SplitContentLoop_early(sentences, i + 1, <<>>, 0, 0, mt, ov)
         ELSE IF current_tokens + sentence_tokens >= mt /\ current_chunk # <<>>
         THEN LET overlap_sentences == _get_overlap_sentences(current_chunk, ov)
                  next_chunk == Append(overlap_sentences, sentence)
              IN <<Piece(join(<<" ">>, current_chunk), "sentences",
                         current_chunk, carried, NoneVal)>>
                 \o SplitContentLoop_early(sentences, i + 1, next_chunk,
                                     Len(overlap_sentences),
                                     SumTokens(next_chunk), mt, ov)
         ELSE SplitContentLoop_early(sentences, i + 1, Append(current_chunk, sentence),
                               carried, current_tokens + sentence_tokens, mt, ov)

RECURSIVE SplitContentLoop(_, _, _, _, _, _, _)
SplitContentLoop(sentences, i, current_chunk, carried, current_tokens, mt, ov) ==
    IF i > Len(sentences)
    THEN IF current_chunk # <<>>
         THEN <<Piece(join(<<" ">>, current_chunk), "sentences", current_chunk,
                      carried, NoneVal)>>
         ELSE <<>>
    ELSE
      LET sentence == sentences[i]
          sentence_tokens == _estimate_tokens(sentence)
      IN IF sentence_tokens > mt
         THEN (IF current_chunk # <<>>
               THEN <<Piece(join(<<" ">>, current_chunk), "sentences",
                            current_chunk, carried, NoneVal)>>
               ELSE <<>>)
              \o _split_long_sentence(sentence, mt, ov)
              \o SplitContentLoop(sentences, i + 1, <<>>, 0, 0, mt, ov)
         ELSE IF current_tokens + sentence_tokens > mt /\ current_chunk # <<>>
         THEN LET overlap_sentences == _get_overlap_sentences(current_chunk, ov)
                  next_chunk == Append(overlap_sentences, sentence)
              IN <<Piece(join(<<" ">>, current_chunk), "sentences",
                         current_chunk, carried, NoneVal)>>
                 \o SplitContentLoop(sentences, i + 1, next_chunk,
                                     Len(overlap_sentences),
                                     SumTokens(next_chunk), mt, ov)
         ELSE SplitContentLoop(sentences, i + 1, Append(current_chunk, sentence),
                               carried, current_tokens + sentence_tokens, mt, ov)

_split_content(content, mt, ov) ==
    IF strip(content) = <<>> THEN <<>>
    ELSE IF _estimate_tokens(content) <= mt THEN <<Whole(content, NoneVal)>>
    ELSE Only({SplitContentLoop(sentences, 1, <<>>, 0, 0, mt, ov) :
                  sentences \in {_split_into_sentences(content)}})

(***************************************************************************)
(* StructureAwareChunker._chunk_section                                    *)
(***************************************************************************)
Ok(pieces) == [err |-> "", pieces |-> pieces]
Raise(err) == [err |-> err, pieces |-> <<>>]

_chunk_section(section, mt, ov) ==
    IF section.section_type = "code"
    THEN Ok(<<Whole(section.content, NoneVal)>>)
    ELSE IF section.section_type = "table"
            /\ _estimate_tokens(section.content) <= mt
    THEN Ok(<<Whole(section.content, NoneVal)>>)
    ELSE Ok(_split_content(section.content, mt, ov))

(***************************************************************************)
(* File extensions.  source.rsplit(".", 1)[-1].lower() when "." in source, *)
(* else "" (registry.py _get_extension, code_chunker.py _detect_language). *)
(***************************************************************************)
RECURSIVE LastDot(_, _)
LastDot(s, j) == IF j < 1 THEN 0 ELSE IF s[j] = "." THEN j ELSE LastDot(s, j - 1)

\* faulty variant: the extension is compared as written
_get_extension_asis(src) ==
    IF LastDot(src, Len(src)) = 0 THEN <<>>
    ELSE SubSeq(src, LastDot(src, Len(src)) + 1, Len(src))

_get_extension(src) ==
    IF LastDot(src, Len(src)) = 0 THEN <<>>
    ELSE lower(SubSeq(src, LastDot(src, Len(src)) + 1, Len(src)))

\* CodeDocumentChunker.EXTENSION_MAP
EXTENSION_MAP(ext) ==
    CASE ext \in {<<"p", "y">>, <<"p", "y", "i">>} -> "python"
      [] ext \in {<<"j", "s">>, <<"j", "s", "x">>, <<"t", "s">>,
                  <<"t", "s", "x">>} -> "javascript"
      [] ext = <<"j", "a", "v", "a">> -> "java"
      [] ext = <<"g", "o">> -> "go"
      [] ext = <<"r", "s">> -> "rust"
      [] ext = <<"c", "p", "p">> -> "cpp"
      [] ext \in {<<"c">>, <<"h">>} -> "c"
      [] ext = <<"c", "s">> -> "csharp"
      [] ext = <<"p", "h", "p">> -> "php"
      [] ext = <<"r", "b">> -> "ruby"
      [] ext = <<"s", "w", "i", "f", "t">> -> "swift"
      [] ext = <<"k", "t">> -> "kotlin"
      [] OTHER -> NoneVal

_detect_language(src) ==
    IF EXTENSION_MAP(_get_extension(src)) = NoneVal THEN "python"
    ELSE EXTENSION_MAP(_get_extension(src))

(***************************************************************************)
(* CodeDocumentChunker.PATTERNS.  PatternFamily is                         *)
(* PATTERNS.get(language, PATTERNS["python"]).  Over the content alphabet  *)
(* the only pattern of any family that can match is python's decorator     *)
(* @\w+ : every other pattern needs a keyword or a parenthesis.  The go    *)
(* family's function pattern has an unbalanced ")" : compiling the         *)
(* combined pattern in re.search raises re.error.                          *)
(***************************************************************************)
PatternFamily(language) ==
    IF language \in {"python", "javascript", "java", "go", "rust"}
    THEN language ELSE "python"

PatternCompiles(family) == family # "go"

PatternMatches(family, text) ==
    /\ family = "python"
    /\ \E i \in 1..(Len(text) - 1) : text[i] = "@" /\ IsWordChar(text[i + 1])

(***************************************************************************)
(* CodeDocumentChunker._find_boundaries: the full_line of each boundary,   *)
(* i.e. the boundary line and the non-boundary lines that follow it.       *)
(***************************************************************************)
RECURSIVE FindBoundariesLoop(_, _, _, _)
FindBoundariesLoop(lines, i, boundaries, family) ==
    IF i > Len(lines) THEN boundaries
    ELSE IF PatternMatches(family, strip(lines[i]))
         THEN FindBoundariesLoop(lines, i + 1, Append(boundaries, lines[i]), family)
    ELSE IF boundaries # <<>>
         THEN FindBoundariesLoop(lines, i + 1,
                  [boundaries EXCEPT ![Len(boundaries)] = @ \o <<"\n">> \o lines[i]],
                  family)
    ELSE FindBoundariesLoop(lines, i + 1, boundaries, family)

_find_boundaries(content, family) ==
    Only({FindBoundariesLoop(lines, 1, <<>>, family) :
            lines \in {split_lines(content)}})

\* the estimate of line + "\n" summed over lines (code_chunker.py:204)
RECURSIVE SumLineTokens(_)
SumLineTokens(lines) ==
    IF lines = <<>> THEN 0
    ELSE _estimate_tokens(Head(lines) \o <<"\n">>) + SumLineTokens(Tail(lines))

(***************************************************************************)
(* CodeDocumentChunker._split_by_lines                                     *)
(***************************************************************************)
LineOverlap == 5

RECURSIVE SplitByLinesLoop(_, _, _, _, _, _, _)
SplitByLinesLoop(lines, i, current_lines, carried, current_tokens, language, mt) ==
    IF i > Len(lines)
    THEN IF current_lines # <<>>
         THEN <<Piece(join(<<"\n">>, current_lines), "lines", current_lines,
                      carried, language)>>
         ELSE <<>>
    ELSE
      LET line == lines[i]
          line_tokens == _estimate_tokens(line \o <<"\n">>)
      IN IF current_tokens + line_tokens > mt /\ current_lines # <<>>
         THEN LET overlap_count == Min(LineOverlap, Len(current_lines))
                  kept == PyLast(current_lines, overlap_count)
              IN <<Piece(join(<<"\n">>, current_lines), "lines", current_lines,
                         carried, language)>>
                 \o SplitByLinesLoop(lines, i + 1, Append(kept, line), Len(kept),
                                     SumLineTokens(kept) + line_tokens, language, mt)
         ELSE SplitByLinesLoop(lines, i + 1, Append(current_lines, line), carried,
                               current_tokens + line_tokens, language, mt)

_split_by_lines(content, language, mt) ==
    Only({SplitByLinesLoop(lines, 1, <<>>, 0, 0, language, mt) :
            lines \in {split_lines(content)}})

(***************************************************************************)
(* CodeDocumentChunker._split_by_structure                                 *)
(***************************************************************************)
StructOverlap == 3

\* faulty variant: the overlap is the last line of the chunk text, not the
\* last units
RECURSIVE SplitByStructureLoop_lines(_, _, _, _, _, _)
SplitByStructureLoop_lines(boundaries, idx, current_lines, carried, language, mt) ==
    IF idx > Len(boundaries) THEN <<>>
    ELSE
      LET lines2 == Append(current_lines, boundaries[idx])
          current_text == join(<<"\n">>, lines2)
      IN IF _estimate_tokens(current_text) >= mt \/ idx = Len(boundaries)
         THEN LET kept == PyLast(split_lines(current_text), 1)
              IN <<Piece(current_text, "units", lines2, carried, language)>>
                 \o SplitByStructureLoop_lines(boundaries, idx + 1, kept,
                                               Len(kept), language, mt)
         ELSE SplitByStructureLoop_lines(boundaries, idx + 1, lines2, carried,
                                         language, mt)

RECURSIVE SplitByStructureLoop(_, _, _, _, _, _)
SplitByStructureLoop(boundaries, idx, current_lines, carried, language, mt) ==
    IF idx > Len(boundaries) THEN <<>>
    ELSE
      LET lines2 == Append(current_lines, boundaries[idx])
          current_text == join(<<"\n">>, lines2)
      IN IF _estimate_tokens(current_text) >= mt \/ idx = Len(boundaries)
         THEN LET overlap_count == Min(StructOverlap, Len(lines2))
                  kept == PyLast(lines2, overlap_count)
              IN <<Piece(current_text, "units", lines2, carried, language)>>
                 \o SplitByStructureLoop(boundaries, idx + 1, kept, Len(kept),
                                         language, mt)
         ELSE SplitByStructureLoop(boundaries, idx + 1, lines2, carried,
                                   language, mt)

_split_by_structure(content, language, mt) ==
    LET family == PatternFamily(language)
    IN IF ~PatternCompiles(family) THEN Raise("re.error")
       ELSE Only({
              IF boundaries = <<>>
              THEN Ok(_split_by_lines(content, language, mt))
              ELSE Only({IF packed # <<>> THEN Ok(packed)
                         ELSE Ok(<<Whole(content, language)>>) :
                            packed \in {SplitByStructureLoop(boundaries, 1, <<>>, 0,
                                                             language, mt)}}) :
                 boundaries \in {_find_boundaries(content, family)}})

(***************************************************************************)
(* CodeDocumentChunker._chunk_code_section                                 *)
(***************************************************************************)
_chunk_code_section(section, src, mt) ==
    LET language == _detect_language(src)
    IN IF _estimate_tokens(section.content) <= mt
       THEN Ok(<<Whole(section.content, language)>>)
       ELSE _split_by_structure(section.content, language, mt)

(***************************************************************************)
(* TabularDocumentChunker._group_rows: each group with (history) the       *)
(* number of its leading rows kept from the group closed before.           *)
(***************************************************************************)
RECURSIVE GroupRowsLoop(_, _, _, _, _)
GroupRowsLoop(rows, i, current_group, carried, rows_per_chunk) ==
    IF i > Len(rows)
    THEN IF current_group # <<>>
         THEN <<[rows |-> current_group, carried |-> carried]>>
         ELSE <<>>
    ELSE
      LET group == Append(current_group, rows[i])
      IN IF Len(group) >= rows_per_chunk
         THEN LET overlap == Min(rows_per_chunk \div 2, Len(group))
                  kept == PyLast(group, overlap)
              IN <<[rows |-> group, carried |-> carried]>>
                 \o GroupRowsLoop(rows, i + 1, kept, Len(kept), rows_per_chunk)
         ELSE GroupRowsLoop(rows, i + 1, group, carried, rows_per_chunk)

_group_rows(rows, rows_per_chunk) ==
    IF rows = <<>> THEN <<>>
    ELSE GroupRowsLoop(rows, 1, <<>>, 0, rows_per_chunk)

(***************************************************************************)
(* TabularDocumentChunker._chunk_simple                                    *)
(***************************************************************************)
RECURSIVE ChunkSimpleLoop(_, _, _, _, _, _, _)
ChunkSimpleLoop(sentences, i, current_sentences, carried, current_tokens, mt, ov) ==
    IF i > Len(sentences)
    THEN IF current_sentences # <<>>
         THEN <<Piece(join(<<" ">>, current_sentences), "sentences",
                      current_sentences, carried, NoneVal)>>
         ELSE <<>>
    ELSE
      LET sentence == sentences[i]
          sentence_tokens == _estimate_tokens(sentence)
      IN IF current_tokens + sentence_tokens > mt /\ current_sentences # <<>>
         THEN LET overlap_sentences == _get_overlap_sentences(current_sentences, ov)
                  next_sentences == Append(overlap_sentences, sentence)
              IN <<Piece(join(<<" ">>, current_sentences), "sentences",
                         current_sentences, carried, NoneVal)>>
                 \o ChunkSimpleLoop(sentences, i + 1, next_sentences,
                                    Len(overlap_sentences),
                                    SumTokens(next_sentences), mt, ov)
         ELSE ChunkSimpleLoop(sentences, i + 1, Append(current_sentences, sentence),
                              carried, current_tokens + sentence_tokens, mt, ov)

_chunk_simple(section, mt, ov) ==
    IF _estimate_tokens(section.content) <= mt
    THEN <<Whole(section.content, NoneVal)>>
    ELSE Only({ChunkSimpleLoop(sentences, 1, <<>>, 0, 0, mt, ov) :
                  sentences \in {_split_into_sentences(section.content)}})

(***************************************************************************)
(* TabularDocumentChunker._chunk_table_section                             *)
(***************************************************************************)
DefaultAvgRowTokens == 100

\* faulty variant: only the first row group is given the header
RowGroupPieces_headeronce(header, groups) ==
    [g \in 1..Len(groups) |->
        Piece((IF g = 1 THEN header \o <<"\n">> ELSE <<>>)
                  \o join(<<"\n">>, groups[g].rows),
              "rows", groups[g].rows, groups[g].carried, NoneVal)]

RowGroupPieces(header, groups) ==
    [g \in 1..Len(groups) |->
        Piece(header \o <<"\n">> \o join(<<"\n">>, groups[g].rows), "rows",
              groups[g].rows, groups[g].carried, NoneVal)]

TableSectionRows(section, content, header, rows, mt, ov) ==
    LET header_tokens == _estimate_tokens(header)
        available_tokens == mt - header_tokens - ov
        avg_row_tokens == IF rows # <<>> THEN SumTokens(rows) \div Len(rows)
                          ELSE DefaultAvgRowTokens
        rows_per_chunk == Max(1, available_tokens \div avg_row_tokens)
    IN IF _estimate_tokens(content) <= mt THEN Ok(<<Whole(content, NoneVal)>>)
       ELSE IF available_tokens <= 0 THEN Ok(_chunk_simple(section, mt, ov))
       ELSE IF avg_row_tokens = 0 THEN Raise("ZeroDivisionError")
       ELSE Only({Ok(RowGroupPieces(header, row_groups)) :
                    row_groups \in {_group_rows(rows, rows_per_chunk)}})

_chunk_table_section(section, mt, ov) ==
    Only({TableSectionRows(section, section.content, lines[1], Tail(lines), mt, ov) :
            lines \in {split_lines(section.content)}})

(***************************************************************************)
(* _create_chunk and _update_chunk_indices.  The id is str(uuid.uuid4()):  *)
(* the n-th value the process draws is modelled as n.                      *)
(***************************************************************************)
_create_chunk(piece, section, src, uuid) ==
    [id |-> uuid,
     content |-> piece.content,
     metadata |-> [source |-> src,
                   page |-> section.page,
                   heading |-> section.heading,
                   section_type |-> section.section_type,
                   chunk_index |-> 0,
                   total_chunks |-> 0,
                   char_count |-> Len(piece.content),
                   token_count |-> _estimate_tokens(piece.content),
                   language |-> piece.language,
                   function_name |-> NoneVal]]

\* faulty variant: enumerate from 1
_update_chunk_indices_from1(cs) ==
    [i \in 1..Len(cs) |->
        [cs[i] EXCEPT !.metadata.chunk_index = i,
                      !.metadata.total_chunks = Len(cs)]]

_update_chunk_indices(cs) ==
    [i \in 1..Len(cs) |->
        [cs[i] EXCEPT !.metadata.chunk_index = i - 1,
                      !.metadata.total_chunks = Len(cs)]]

(***************************************************************************)
(* chunk() of the three strategies: the per-section results in section     *)
(* order, then the indices.  An exception of a section ends the call; the  *)
(* chunks created for the sections before it have drawn their uuids.       *)
(***************************************************************************)
ChunkOneSection(kind, section, src, mt, ov) ==
    CASE kind = "StructureAwareChunker" -> _chunk_section(section, mt, ov)
      [] kind = "CodeDocumentChunker" -> _chunk_code_section(section, src, mt)
      [] kind = "TabularDocumentChunker" ->
            IF section.section_type = "table"
            THEN _chunk_table_section(section, mt, ov)
            ELSE Ok(_chunk_simple(section, mt, ov))

Tagged(pieces, k) == [i \in 1..Len(pieces) |-> [piece |-> pieces[i], section |-> k]]

\* faulty variant: the chunks of a section are put in front of the list
\* (chunks = section_chunks + chunks read backwards)
RECURSIVE ChunkSections_front(_, _, _, _, _, _)
ChunkSections_front(kind, secs, k, src, mt, ov) ==
    IF k > Len(secs) THEN [err |-> "", items |-> <<>>]
    ELSE LET one == ChunkOneSection(kind, secs[k], src, mt, ov)
             rest == ChunkSections_front(kind, secs, k + 1, src, mt, ov)
         IN IF one.err # "" THEN [err |-> one.err, items |-> <<>>]
            ELSE [err |-> rest.err, items |-> rest.items \o Tagged(one.pieces, k)]

RECURSIVE ChunkSections(_, _, _, _, _, _)
ChunkSections(kind, secs, k, src, mt, ov) ==
    IF k > Len(secs) THEN [err |-> "", items |-> <<>>]
    ELSE LET one == ChunkOneSection(kind, secs[k], src, mt, ov)
             rest == ChunkSections(kind, secs, k + 1, src, mt, ov)
         IN IF one.err # "" THEN [err |-> one.err, items |-> <<>>]
            ELSE [err |-> rest.err, items |-> Tagged(one.pieces, k) \o rest.items]

CreateAll(items, secs, src, first_uuid) ==
    [i \in 1..Len(items) |->
        _create_chunk(items[i].piece, secs[items[i].section], src,
                      first_uuid + i - 1)]

chunker_chunk(ch, secs, src, first_uuid) ==
    LET r == ChunkSections(ch.kind, secs, 1, src, ch.max_tokens, ch.overlap_tokens)
    IN [err |-> r.err,
        items |-> r.items,
        chunks |-> IF r.err = ""
                   THEN _update_chunk_indices(CreateAll(r.items, secs, src, first_uuid))
                   ELSE <<>>]

(***************************************************************************)
(* ChunkingStrategyRegistry                                                *)
(***************************************************************************)
_EXTENSION_MAP(ext) ==
    CASE ext \in {<<"p", "y">>, <<"p", "y", "i">>, <<"j", "s">>,
                  <<"j", "s", "x">>, <<"t", "s">>, <<"t", "s", "x">>,
                  <<"j", "a", "v", "a">>, <<"g", "o">>, <<"r", "s">>,
                  <<"c", "p", "p">>, <<"c">>, <<"h">>, <<"c", "s">>,
                  <<"p", "h", "p">>, <<"r", "b">>, <<"s", "w", "i", "f", "t">>,
                  <<"k", "t">>, <<"s", "c", "a", "l", "a">>, <<"s", "h">>,
                  <<"b", "a", "s", "h">>, <<"z", "s", "h">>, <<"s", "q", "l">>}
            -> "code"
      [] ext \in {<<"c", "s", "v">>, <<"t", "s", "v">>, <<"x", "l", "s", "x">>,
                  <<"x", "l", "s">>}
            -> "tabular"
      [] OTHER -> "default"

get_strategy(src, content_hint) ==
    IF content_hint \notin {NoneVal, ""} THEN content_hint
    ELSE _EXTENSION_MAP(_get_extension(src))

KnownStrategies == {"code", "tabular", "default"}

\* faulty variant: an unknown name is downgraded to the default chunker
create_chunker_fallback(name, mt, ov) ==
    [err |-> "",
     kind |-> CASE name = "code" -> "CodeDocumentChunker"
                [] name = "tabular" -> "TabularDocumentChunker"
                [] OTHER -> "StructureAwareChunker",
     max_tokens |-> mt, overlap_tokens |-> ov]

create_chunker(name, mt, ov) ==
    CASE name = "code" ->
            [err |-> "", kind |-> "CodeDocumentChunker",
             max_tokens |-> mt, overlap_tokens |-> ov]
      [] name = "tabular" ->
            [err |-> "", kind |-> "TabularDocumentChunker",
             max_tokens |-> mt, overlap_tokens |-> ov]
      [] name = "default" ->
            [err |-> "", kind |-> "StructureAwareChunker",
             max_tokens |-> mt, overlap_tokens |-> ov]
      [] OTHER ->
            [err |-> "ValueError", kind |-> NoneVal,
             max_tokens |-> mt, overlap_tokens |-> ov]

(***************************************************************************)
(* DomainAwareChunker._get_strategy.  table_ratio > 0.5 is evaluated only  *)
(* for a non-empty section list; on an empty one the division would raise. *)
(***************************************************************************)
TableCount(secs) == Cardinality({k \in 1..Len(secs) : secs[k].section_type = "table"})

\* faulty variant: the table ratio is computed without the `and sections` guard
_get_strategy_unguarded(pinned, src, secs) ==
    IF pinned # "auto" THEN [err |-> "", name |-> pinned]
    ELSE LET looked == get_strategy(src, NoneVal)
         IN IF looked = "default"
            THEN IF secs = <<>> THEN [err |-> "ZeroDivisionError", name |-> NoneVal]
                 ELSE IF 2 * TableCount(secs) > Len(secs)
                 THEN [err |-> "", name |-> "tabular"]
                 ELSE [err |-> "", name |-> looked]
            ELSE [err |-> "", name |-> looked]

\* faulty variant: the pinned strategy is not looked at
_get_strategy_autoonly(pinned, src, secs) ==
    LET looked == get_strategy(src, NoneVal)
    IN IF looked = "default" /\ secs # <<>>
       THEN IF 2 * TableCount(secs) > Len(secs)
            THEN [err |-> "", name |-> "tabular"]
            ELSE [err |-> "", name |-> looked]
       ELSE [err |-> "", name |-> looked]

\* faulty variant: half of the sections being tables is enough
_get_strategy_half(pinned, src, secs) ==
    IF pinned # "auto" THEN [err |-> "", name |-> pinned]
    ELSE LET looked == get_strategy(src, NoneVal)
         IN IF looked = "default" /\ secs # <<>>
            THEN IF 2 * TableCount(secs) >= Len(secs)
                 THEN [err |-> "", name |-> "tabular"]
                 ELSE [err |-> "", name |-> looked]
            ELSE [err |-> "", name |-> looked]

_get_strategy(pinned, src, secs) ==
    IF pinned # "auto" THEN [err |-> "", name |-> pinned]
    ELSE LET looked == get_strategy(src, NoneVal)
         IN IF looked = "default" /\ secs # <<>>
            THEN IF 2 * TableCount(secs) > Len(secs)
                 THEN [err |-> "", name |-> "tabular"]
                 ELSE [err |-> "", name |-> looked]
            ELSE [err |-> "", name |-> looked]

(***************************************************************************)
(* Inputs.  A content is words joined by one separator; the empty word     *)
(* gives leading, trailing and doubled separators (blank lines,            *)
(* whitespace-only contents).  The words: a sentence shorter than one      *)
(* token, a sentence of one token, a decorator line of one token that is   *)
(* no sentence.  A section list of size n holds sections and words, n in   *)
(* all, so the longest single section has MaxSize - 1 words.  The section  *)
(* types are the ones the code tells apart: it compares section_type with  *)
(* "code" and "table" only, every other value ("heading" included) takes   *)
(* the path of "paragraph".                                                *)
(***************************************************************************)
Words == {<<>>, <<"A", ".">>, <<"A", "a", "a", ".">>, <<"@", "a", "a", "a">>}
Separators == {<<" ">>, <<"\n">>}
SectionTypes == {"paragraph", "code", "table"}

ContentsOf(k) == {join(sep, ws) : ws \in [1..k -> Words], sep \in Separators}

SectionsOf(k) ==
    [content : ContentsOf(k), page : {1}, heading : {NoneVal},
     section_type : SectionTypes]

RECURSIVE SectionLists(_)
SectionLists(n) ==
    IF n = 0 THEN {<<>>}
    ELSE {<<>>} \cup
         UNION {{<<s>> \o rest : s \in SectionsOf(k), rest \in SectionLists(n - 1 - k)}
                : k \in 0..(n - 1)}

Sources == {<<"n">>, <<"f", ".", "p", "y">>, <<"m", ".", "G", "O">>,
            <<"d", ".", "c", "s", "v">>, <<"f", ".", "p", "y", ".", "t">>}
Strategies == {"auto", "default", "code", "tabular", "csv"}
TokenBudgets == {1, 2}
Overlaps == {0, 1, 2}

(***************************************************************************)
(* DomainAwareChunker: __init__, then one chunk(sections, source) call.    *)
(***************************************************************************)
Init ==
    /\ max_tokens \in TokenBudgets
    /\ overlap_tokens \in Overlaps
    /\ strategy \in Strategies
    /\ sections \in SectionLists(MaxSize)
    /\ source \in Sources
    /\ pc = "called"
    /\ selected = NoneVal
    /\ chunker = NoChunker
    /\ chunks = <<>>
    /\ packing = <<>>
    /\ error = ""
    /\ uuids = 0
    /\ calls = <<>>

\* DomainAwareChunker.chunk: _get_strategy, create_chunker, chunker.chunk
DomainAwareChunker_chunk(pinned, mt, ov, secs, src, first_uuid) ==
    LET s == _get_strategy(pinned, src, secs)
        c == create_chunker(s.name, mt, ov)
        r == chunker_chunk(c, secs, src, first_uuid)
    IN IF s.err # ""
       THEN [err |-> s.err, selected |-> NoneVal, chunker |-> NoChunker,
             items |-> <<>>, chunks |-> <<>>]
       ELSE IF c.err # ""
       THEN [err |-> c.err, selected |-> s.name, chunker |-> NoChunker,
             items |-> <<>>, chunks |-> <<>>]
       ELSE [err |-> r.err, selected |-> s.name,
             chunker |-> [kind |-> c.kind, max_tokens |-> c.max_tokens,
                          overlap_tokens |-> c.overlap_tokens],
             items |-> r.items, chunks |-> r.chunks]

Chunk ==
    /\ pc = "called"
    /\ \E r \in {DomainAwareChunker_chunk(strategy, max_tokens, overlap_tokens,
                                           sections, source, uuids + 1)} :
          /\ selected' = r.selected
          /\ chunker' = r.chunker
          /\ uuids' = uuids + Len(r.items)
          /\ error' = r.err
          /\ pc' = IF r.err = "" THEN "returned" ELSE "raised"
          /\ chunks' = r.chunks
          /\ packing' = IF r.err = "" THEN r.items ELSE <<>>
    /\ UNCHANGED <<max_tokens, overlap_tokens, strategy, sections, source, calls>>

Next == Chunk

Spec == Init /\ [][Next]_vars

(***************************************************************************)
(* chunk() step by step, for calls that run interleaved on one instance.   *)
(* A frame holds the arguments and locals of one call: the local           *)
(* `strategy` and `chunker` of DomainAwareChunker.chunk, and of the        *)
(* chunker's chunk() the section the loop is at (k), its list `chunks`     *)
(* and (history) the pieces the chunks were made from.  The steps of a     *)
(* call: _get_strategy, create_chunker, one loop iteration per section,    *)
(* _update_chunk_indices and return.  The instance fields max_tokens,      *)
(* overlap_tokens, strategy are shared by the calls, and so is the source  *)
(* of uuids.                                                               *)
(***************************************************************************)
NewCall(secs, src) ==
    [sections |-> secs, source |-> src, pc |-> "called", strategy |-> NoneVal,
     chunker |-> NoChunker, k |-> 1, items |-> <<>>, chunks |-> <<>>,
     error |-> ""]

\* "Aaa. A. @aaa @aaa": a short sentence, then one to be split by words
ProseText == <<"A", "a", "a", ".", " ", "A", ".", " ", "@", "a", "a", "a", " ",
               "@", "a", "a", "a">>
\* "@aaa\nA.\n@aaa\nAaa.": two decorated units of code, or a header and rows
LinesText == <<"@", "a", "a", "a", "\n", "A", ".", "\n", "@", "a", "a", "a", "\n",
               "A", "a", "a", ".">>
\* "@aaa\nA.\nA.\nA.\n@aaa": a unit of code of four lines, then another
UnitText == <<"@", "a", "a", "a", "\n", "A", ".", "\n", "A", ".", "\n", "A", ".",
              "\n", "@", "a", "a", "a">>

Sec(content, type) ==
    [content |-> content, page |-> 1, heading |-> NoneVal, section_type |-> type]

CallSectionLists ==
    {<<>>}
    \cup {<<Sec(t, ty)>> : t \in {ProseText, LinesText}, ty \in SectionTypes}
    \cup {<<Sec(ProseText, "paragraph"), Sec(LinesText, "table")>>,
          <<Sec(LinesText, "code"), Sec(ProseText, "paragraph")>>,
          <<Sec(LinesText, "table"), Sec(LinesText, "table")>>,
          <<Sec(UnitText, "code")>>}

CallSources == {<<"n">>, <<"f", ".", "p", "y">>, <<"m", ".", "G", "O">>,
                <<"d", ".", "c", "s", "v">>}
CallStrategies == {"auto", "csv"}

InitCalls(ids, pinned, lists, srcs) ==
    /\ max_tokens \in TokenBudgets
    /\ overlap_tokens \in Overlaps
    /\ strategy \in pinned
    /\ calls \in [ids -> {NewCall(secs, src) : secs \in lists, src \in srcs}]
    /\ sections = <<>>
    /\ source = <<>>
    /\ pc = "idle"
    /\ selected = NoneVal
    /\ chunker = NoChunker
    /\ chunks = <<>>
    /\ packing = <<>>
    /\ error = ""
    /\ uuids = 0

\* what the steps of a call leave alone: the instance fields, and the
\* variables of the call taken as one step
others == <<max_tokens, overlap_tokens, strategy, sections, source, pc,
            selected, chunker, chunks, packing, error>>

\* faulty variant: the chunker is kept on the instance, the one call "a"
\* made serves every call once it is there
ChunkerOf_shared(c, frames) ==
    IF "a" \in DOMAIN frames /\ frames["a"].chunker # NoChunker
    THEN frames["a"].chunker ELSE frames[c].chunker

\* the chunker a call delegates to: its own local `chunker`
ChunkerOf(c, frames) == frames[c].chunker

\* strategy = self._get_strategy(source, sections)
GetStrategy(c) ==
    /\ calls[c].pc = "called"
    /\ \E s \in {_get_strategy(strategy, calls[c].source, calls[c].sections)} :
          calls' = IF s.err # ""
                   THEN [calls EXCEPT ![c].pc = "raised", ![c].error = s.err]
                   ELSE [calls EXCEPT ![c].pc = "selected", ![c].strategy = s.name]
    /\ UNCHANGED <<uuids, others>>

\* chunker = self._registry.create_chunker(strategy)
CreateChunker(c) ==
    /\ calls[c].pc = "selected"
    /\ \E made \in {create_chunker(calls[c].strategy, max_tokens, overlap_tokens)} :
          calls' = IF made.err # ""
                   THEN [calls EXCEPT ![c].pc = "raised", ![c].error = made.err]
                   ELSE [calls EXCEPT
                            ![c].pc = "chunking",
                            ![c].chunker = [kind |-> made.kind,
                                            max_tokens |-> made.max_tokens,
                                            overlap_tokens |-> made.overlap_tokens]]
    /\ UNCHANGED <<uuids, others>>

\* one iteration of `for section in sections`: chunks.extend(section_chunks)
ChunkSection(c) ==
    /\ calls[c].pc = "chunking"
    /\ calls[c].k <= Len(calls[c].sections)
    /\ \E one \in {ChunkOneSection(ch.kind, section, calls[c].source,
                                    ch.max_tokens, ch.overlap_tokens) :
                        ch \in {ChunkerOf(c, calls)},
                        section \in {calls[c].sections[calls[c].k]}} :
          IF one.err # ""
          THEN /\ calls' = [calls EXCEPT ![c].pc = "raised", ![c].error = one.err]
               /\ UNCHANGED uuids
          ELSE /\ calls' = [calls EXCEPT
                    ![c].k = @ + 1,
                    ![c].items = @ \o Tagged(one.pieces, calls[c].k),
                    ![c].chunks = @ \o
                        [i \in 1..Len(one.pieces) |->
                            _create_chunk(one.pieces[i],
                                          calls[c].sections[calls[c].k],
                                          calls[c].source, uuids + i)]]
               /\ uuids' = uuids + Len(one.pieces)
    /\ UNCHANGED others

\* faulty variant: the call empties the section list it was given
ReturnChunks_clearing(c) ==
    /\ calls[c].pc = "chunking"
    /\ calls[c].k > Len(calls[c].sections)
    /\ calls' = [calls EXCEPT ![c].pc = "returned",
                              ![c].chunks = _update_chunk_indices(@),
                              ![c].sections = <<>>]
    /\ UNCHANGED <<uuids, others>>

\* self._update_chunk_indices(chunks); return chunks
ReturnChunks(c) ==
    /\ calls[c].pc = "chunking"
    /\ calls[c].k > Len(calls[c].sections)
    /\ calls' = [calls EXCEPT ![c].pc = "returned",
                              ![c].chunks = _update_chunk_indices(@)]
    /\ UNCHANGED <<uuids, others>>

NextCalls ==
    \/ \E c \in DOMAIN calls : GetStrategy(c)
    \/ \E c \in DOMAIN calls : CreateChunker(c)
    \/ \E c \in DOMAIN calls : ChunkSection(c)
    \/ \E c \in DOMAIN calls : ReturnChunks(c)

\* two calls interleaved on one instance
SpecCalls ==
    InitCalls({"a", "b"}, CallStrategies, CallSectionLists, CallSources)
        /\ [][NextCalls]_vars

(***************************************************************************)
(* The loops of a section step by step.  A call that chunks a section runs *)
(* a stack of loops: the sentence loop of _split_content or _chunk_simple, *)
(* the word loop of _split_long_sentence (called from an iteration of the  *)
(* sentence loop), the line loop of _split_by_lines, the loop over the     *)
(* boundaries of _split_by_structure, the row loop of _group_rows and the  *)
(* loop over row_groups of _chunk_table_section.  A loop frame holds the   *)
(* list the `for` runs over (units), the position of the next element (i), *)
(* the locals of the loop (current, tokens, groups) and, as history, the   *)
(* iterations done (steps), the chunks made (made) and the units of        *)
(* `current` carried over from the chunk closed before.  One action is one *)
(* iteration; what an iteration calls other than a loop above              *)
(* (_estimate_tokens, join, _get_overlap_sentences) is evaluated in it.    *)
(***************************************************************************)
Loop(loop, units, language, header, rows_per_chunk) ==
    [loop |-> loop, units |-> units, i |-> 1, steps |-> 0, current |-> <<>>,
     carried |-> 0, tokens |-> 0, made |-> 0, language |-> language,
     header |-> header, rows_per_chunk |-> rows_per_chunk, groups |-> <<>>]

\* what an iteration leaves: the frame, the chunks it made, the loop it called
Iteration(frame, emit, push) == [frame |-> frame, emit |-> emit, push |-> push]

SentencesPiece(f) ==
    Piece(join(<<" ">>, f.current), "sentences", f.current, f.carried, NoneVal)

\* one iteration of `for sentence in sentences` of _split_content
SplitContentStep(f, mt, ov) ==
    LET sentence == f.units[f.i]
        sentence_tokens == _estimate_tokens(sentence)
    IN IF sentence_tokens > mt
       THEN Iteration([f EXCEPT !.i = @ + 1, !.current = <<>>, !.carried = 0,
                                !.tokens = 0],
                      IF f.current # <<>> THEN <<SentencesPiece(f)>> ELSE <<>>,
                      <<Loop("_split_long_sentence", split(sentence), NoneVal,
                             <<>>, 0)>>)
       ELSE IF f.tokens + sentence_tokens > mt /\ f.current # <<>>
       THEN LET overlap_sentences == _get_overlap_sentences(f.current, ov)
                next_chunk == Append(overlap_sentences, sentence)
            IN Iteration([f EXCEPT !.i = @ + 1, !.current = next_chunk,
                                   !.carried = Len(overlap_sentences),
                                   !.tokens = SumTokens(next_chunk)],
                         <<SentencesPiece(f)>>, <<>>)
       ELSE Iteration([f EXCEPT !.i = @ + 1, !.current = Append(@, sentence),
                                !.tokens = @ + sentence_tokens],
                      <<>>, <<>>)

\* one iteration of `for sentence in sentences` of _chunk_simple
ChunkSimpleStep(f, mt, ov) ==
    LET sentence == f.units[f.i]
        sentence_tokens == _estimate_tokens(sentence)
    IN IF f.tokens + sentence_tokens > mt /\ f.current # <<>>
       THEN LET overlap_sentences == _get_overlap_sentences(f.current, ov)
                next_sentences == Append(overlap_sentences, sentence)
            IN Iteration([f EXCEPT !.i = @ + 1, !.current = next_sentences,
                                   !.carried = Len(overlap_sentences),
                                   !.tokens = SumTokens(next_sentences)],
                         <<SentencesPiece(f)>>, <<>>)
       ELSE Iteration([f EXCEPT !.i = @ + 1, !.current = Append(@, sentence),
                                !.tokens = @ + sentence_tokens],
                      <<>>, <<>>)

WordsPiece(f) ==
    Piece(join(<<" ">>, f.current), "words", f.current, f.carried, NoneVal)

\* faulty variant: the word that closed the chunk is not consumed, the loop
\* takes it again after the flush
LongSentenceStep_retry(f, mt, ov) ==
    LET word == f.units[f.i]
        word_tokens == _estimate_tokens(word \o <<" ">>)
    IN IF f.tokens + word_tokens > mt /\ f.current # <<>>
       THEN LET overlap_word_count == Min(Len(f.current), ov \div 2)
                kept == PyLast(f.current, overlap_word_count)
            IN Iteration([f EXCEPT !.current = kept, !.carried = Len(kept),
                                   !.tokens = SumWordTokens(kept)],
                         <<WordsPiece(f)>>, <<>>)
       ELSE Iteration([f EXCEPT !.i = @ + 1, !.current = Append(@, word),
                                !.tokens = @ + word_tokens],
                      <<>>, <<>>)

\* one iteration of `for word in words` of _split_long_sentence
LongSentenceStep(f, mt, ov) ==
    LET word == f.units[f.i]
        word_tokens == _estimate_tokens(word \o <<" ">>)
    IN IF f.tokens + word_tokens > mt /\ f.current # <<>>
       THEN LET overlap_word_count == Min(Len(f.current), ov \div 2)
                kept == PyLast(f.current, overlap_word_count)
                next_words == Append(kept, word)
            IN Iteration([f EXCEPT !.i = @ + 1, !.current = next_words,
                                   !.carried = Len(kept),
                                   !.tokens = SumWordTokens(next_words)],
                         <<WordsPiece(f)>>, <<>>)
       ELSE Iteration([f EXCEPT !.i = @ + 1, !.current = Append(@, word),
                                !.tokens = @ + word_tokens],
                      <<>>, <<>>)

LinesPiece(f) ==
    Piece(join(<<"\n">>, f.current), "lines", f.current, f.carried, f.language)

\* one iteration of `for line in lines` of _split_by_lines
SplitByLinesStep(f, mt) ==
    LET line == f.units[f.i]
        line_tokens == _estimate_tokens(line \o <<"\n">>)
    IN IF f.tokens + line_tokens > mt /\ f.current # <<>>
       THEN LET overlap_count == Min(LineOverlap, Len(f.current))
                kept == PyLast(f.current, overlap_count)
            IN Iteration([f EXCEPT !.i = @ + 1, !.current = Append(kept, line),
                                   !.carried = Len(kept),
                                   !.tokens = SumLineTokens(kept) + line_tokens],
                         <<LinesPiece(f)>>, <<>>)
       ELSE Iteration([f EXCEPT !.i = @ + 1, !.current = Append(@, line),
                                !.tokens = @ + line_tokens],
                      <<>>, <<>>)

\* one iteration of `for idx, boundary in enumerate(boundaries)`
SplitByStructureStep(f, mt) ==
    LET lines2 == Append(f.current, f.units[f.i])
        current_text == join(<<"\n">>, lines2)
    IN IF _estimate_tokens(current_text) >= mt \/ f.i = Len(f.units)
       THEN LET overlap_count == Min(StructOverlap, Len(lines2))
                kept == PyLast(lines2, overlap_count)
            IN Iteration([f EXCEPT !.i = @ + 1, !.current = kept,
                                   !.carried = Len(kept)],
                         <<Piece(current_text, "units", lines2, f.carried,
                                 f.language)>>,
                         <<>>)
       ELSE Iteration([f EXCEPT !.i = @ + 1, !.current = lines2], <<>>, <<>>)

\* one iteration of `for row in rows` of _group_rows
GroupRowsStep(f) ==
    LET group == Append(f.current, f.units[f.i])
    IN IF Len(group) >= f.rows_per_chunk
       THEN LET overlap == Min(f.rows_per_chunk \div 2, Len(group))
                kept == PyLast(group, overlap)
            IN Iteration([f EXCEPT !.i = @ + 1, !.current = kept,
                                   !.carried = Len(kept),
                                   !.groups = Append(@, [rows |-> group,
                                                         carried |-> f.carried])],
                         <<>>, <<>>)
       ELSE Iteration([f EXCEPT !.i = @ + 1, !.current = group], <<>>, <<>>)

\* one iteration of `for row_group in row_groups` of _chunk_table_section
RowGroupsStep(f) ==
    Iteration([f EXCEPT !.i = @ + 1],
              RowGroupPieces(f.header, <<f.units[f.i]>>), <<>>)

IterationOf(f, mt, ov) ==
    CASE f.loop = "_split_content" -> SplitContentStep(f, mt, ov)
      [] f.loop = "_chunk_simple" -> ChunkSimpleStep(f, mt, ov)
      [] f.loop = "_split_long_sentence" -> LongSentenceStep(f, mt, ov)
      [] f.loop = "_split_by_lines" -> SplitByLinesStep(f, mt)
      [] f.loop = "_split_by_structure" -> SplitByStructureStep(f, mt)
      [] f.loop = "_group_rows" -> GroupRowsStep(f)
      [] f.loop = "row_groups" -> RowGroupsStep(f)

\* after the loop: the last chunk, `chunks if chunks else [...]`, or the
\* row groups handed to the loop that makes their chunks
AfterLoop(f, section) ==
    CASE f.loop \in {"_split_content", "_chunk_simple"} ->
            Iteration(f, IF f.current # <<>> THEN <<SentencesPiece(f)>> ELSE <<>>,
                      <<>>)
      [] f.loop = "_split_long_sentence" ->
            Iteration(f, IF f.current # <<>> THEN <<WordsPiece(f)>> ELSE <<>>, <<>>)
      [] f.loop = "_split_by_lines" ->
            Iteration(f, IF f.current # <<>> THEN <<LinesPiece(f)>> ELSE <<>>, <<>>)
      [] f.loop = "_split_by_structure" ->
            Iteration(f, IF f.made = 0 THEN <<Whole(section.content, f.language)>>
                         ELSE <<>>, <<>>)
      [] f.loop = "_group_rows" ->
            Iteration(f, <<>>,
                      <<Loop("row_groups",
                             IF f.current # <<>>
                             THEN Append(f.groups, [rows |-> f.current,
                                                    carried |-> f.carried])
                             ELSE f.groups,
                             NoneVal, f.header, f.rows_per_chunk)>>)
      [] f.loop = "row_groups" -> Iteration(f, <<>>, <<>>)

\* what a section's chunking does before its first loop: the chunks made
\* without a loop, the error raised, or the loop entered
Started(err, emit, push) == [err |-> err, emit |-> emit, push |-> push]

StartSimple(section, mt) ==
    IF _estimate_tokens(section.content) <= mt
    THEN Started("", <<Whole(section.content, NoneVal)>>, <<>>)
    ELSE Started("", <<>>,
                 <<Loop("_chunk_simple", _split_into_sentences(section.content),
                        NoneVal, <<>>, 0)>>)

StartTable(section, header, rows, mt, ov) ==
    LET header_tokens == _estimate_tokens(header)
        available_tokens == mt - header_tokens - ov
        avg_row_tokens == IF rows # <<>> THEN SumTokens(rows) \div Len(rows)
                          ELSE DefaultAvgRowTokens
    IN IF _estimate_tokens(section.content) <= mt
       THEN Started("", <<Whole(section.content, NoneVal)>>, <<>>)
       ELSE IF available_tokens <= 0 THEN StartSimple(section, mt)
       ELSE IF avg_row_tokens = 0 THEN Started("ZeroDivisionError", <<>>, <<>>)
       ELSE IF rows = <<>>
       THEN Started("", <<>>, <<Loop("row_groups", <<>>, NoneVal, header,
                                     Max(1, available_tokens \div avg_row_tokens))>>)
       ELSE Started("", <<>>,
                    <<Loop("_group_rows", rows, NoneVal, header,
                           Max(1, available_tokens \div avg_row_tokens))>>)

StartCode(section, language, mt) ==
    IF _estimate_tokens(section.content) <= mt
    THEN Started("", <<Whole(section.content, language)>>, <<>>)
    ELSE IF ~PatternCompiles(PatternFamily(language))
    THEN Started("re.error", <<>>, <<>>)
    ELSE Only({IF boundaries = <<>>
               THEN Started("", <<>>,
                            <<Loop("_split_by_lines", split_lines(section.content),
                                   language, <<>>, 0)>>)
               ELSE Started("", <<>>,
                            <<Loop("_split_by_structure", boundaries, language,
                                   <<>>, 0)>>) :
                  boundaries \in {_find_boundaries(section.content,
                                                   PatternFamily(language))}})

StartDefault(section, mt) ==
    IF section.section_type = "code"
    THEN Started("", <<Whole(section.content, NoneVal)>>, <<>>)
    ELSE IF section.section_type = "table"
            /\ _estimate_tokens(section.content) <= mt
    THEN Started("", <<Whole(section.content, NoneVal)>>, <<>>)
    ELSE IF strip(section.content) = <<>> THEN Started("", <<>>, <<>>)
    ELSE IF _estimate_tokens(section.content) <= mt
    THEN Started("", <<Whole(section.content, NoneVal)>>, <<>>)
    ELSE Started("", <<>>,
                 <<Loop("_split_content", _split_into_sentences(section.content),
                        NoneVal, <<>>, 0)>>)

StartSection(kind, section, src, mt, ov) ==
    CASE kind = "StructureAwareChunker" -> StartDefault(section, mt)
      [] kind = "CodeDocumentChunker" ->
            StartCode(section, _detect_language(src), mt)
      [] kind = "TabularDocumentChunker" ->
            IF section.section_type = "table"
            THEN Only({StartTable(section, lines[1], Tail(lines), mt, ov) :
                         lines \in {split_lines(section.content)}})
            ELSE StartSimple(section, mt)

\* the unit a loop consumes, as the claims name it
UnitOf(loop) ==
    CASE loop \in {"_split_content", "_chunk_simple"} -> "sentences"
      [] loop = "_split_long_sentence" -> "words"
      [] loop = "_split_by_lines" -> "lines"
      [] loop = "_split_by_structure" -> "units"
      [] loop = "_group_rows" -> "rows"
      [] loop = "row_groups" -> "groups"

NoSteps ==
    [u \in {"sentences", "words", "lines", "units", "rows", "groups"} |-> 0]

\* the frame of a call whose loops are followed: the loops it is in, the
\* innermost last, and (history) the iterations done on the section it is at
NewSteppedCall(secs, src) ==
    [sections |-> secs, source |-> src, pc |-> "called", strategy |-> NoneVal,
     chunker |-> NoChunker, k |-> 1, items |-> <<>>, chunks |-> <<>>,
     error |-> "", loops |-> <<>>, steps |-> NoSteps]

\* chunks.append(self._create_chunk(...)) for each chunk of emit
Emitted(frame, emit, first_uuid) ==
    [frame EXCEPT
        !.items = @ \o Tagged(emit, frame.k),
        !.chunks = @ \o [j \in 1..Len(emit) |->
                            _create_chunk(emit[j], frame.sections[frame.k],
                                          frame.source, first_uuid + j - 1)]]

\* the loops are left: chunks.extend(section_chunks), the next section
Continued(frame, loops) ==
    IF loops = <<>>
    THEN [frame EXCEPT !.loops = <<>>, !.pc = "chunking", !.k = @ + 1,
                       !.steps = NoSteps]
    ELSE [frame EXCEPT !.loops = loops, !.pc = "looping"]

\* `for section in sections`: the chunker's method is called on the section
BeginSection(c) ==
    /\ calls[c].pc = "chunking"
    /\ calls[c].k <= Len(calls[c].sections)
    /\ \E s \in {StartSection(ch.kind, section, calls[c].source, ch.max_tokens,
                               ch.overlap_tokens) :
                    ch \in {ChunkerOf(c, calls)},
                    section \in {calls[c].sections[calls[c].k]}} :
          IF s.err # ""
          THEN /\ calls' = [calls EXCEPT ![c].pc = "raised", ![c].error = s.err]
               /\ UNCHANGED uuids
          ELSE /\ calls' = [calls EXCEPT
                              ![c] = Continued(Emitted(@, s.emit, uuids + 1),
                                               s.push)]
               /\ uuids' = uuids + Len(s.emit)
    /\ UNCHANGED others

\* one iteration of the innermost loop
LoopStep(c) ==
    /\ calls[c].pc = "looping"
    /\ \E n \in {Len(calls[c].loops)} :
          /\ calls[c].loops[n].i <= Len(calls[c].loops[n].units)
          /\ \E r \in {IterationOf(calls[c].loops[n],
                                   ChunkerOf(c, calls).max_tokens,
                                   ChunkerOf(c, calls).overlap_tokens)} :
                /\ calls' = [calls EXCEPT
                      ![c] = [Emitted(@, r.emit, uuids + 1) EXCEPT
                                !.loops = SubSeq(calls[c].loops, 1, n - 1)
                                    \o <<[r.frame EXCEPT
                                            !.steps = @ + 1,
                                            !.made = @ + Len(r.emit)]>>
                                    \o r.push,
                                !.steps[UnitOf(calls[c].loops[n].loop)] = @ + 1]]
                /\ uuids' = uuids + Len(r.emit)
    /\ UNCHANGED others

\* the innermost loop is over: what follows it, then back to its caller
LoopEnd(c) ==
    /\ calls[c].pc = "looping"
    /\ \E n \in {Len(calls[c].loops)} :
          /\ calls[c].loops[n].i > Len(calls[c].loops[n].units)
          /\ \E r \in {AfterLoop(calls[c].loops[n],
                                 calls[c].sections[calls[c].k])} :
                /\ calls' = [calls EXCEPT
                      ![c] = Continued(Emitted(@, r.emit, uuids + 1),
                                       SubSeq(calls[c].loops, 1, n - 1) \o r.push)]
                /\ uuids' = uuids + Len(r.emit)
    /\ UNCHANGED others

\* "A.\nAaa.\n@aaa\nAaa.": a header and three rows of one token each
RowsText == <<"A", ".", "\n", "A", "a", "a", ".", "\n", "@", "a", "a", "a", "\n",
              "A", "a", "a", ".">>

SteppedSectionLists ==
    SectionLists(MaxSize - 1)
        \cup {<<s>> : s \in {t \in SectionsOf(MaxSize - 1) :
                                  t.section_type = "table"}}
        \cup CallSectionLists
        \cup {<<Sec(RowsText, "table")>>,
              <<Sec(RowsText, "table"), Sec(ProseText, "paragraph")>>}

\* chunk(sections, source) is called on an instance no call runs on
EnterChunk ==
    /\ calls = <<>>
    /\ \E secs \in SteppedSectionLists, src \in CallSources :
          calls' = [c \in {"a"} |-> NewSteppedCall(secs, src)]
    /\ UNCHANGED <<uuids, others>>

\* the steps of a call that has been entered
CallSteps ==
    \/ \E c \in DOMAIN calls : GetStrategy(c)
    \/ \E c \in DOMAIN calls : CreateChunker(c)
    \/ \E c \in DOMAIN calls : BeginSection(c)
    \/ \E c \in DOMAIN calls : LoopStep(c)
    \/ \E c \in DOMAIN calls : LoopEnd(c)
    \/ \E c \in DOMAIN calls : ReturnChunks(c)

NextCall == EnterChunk \/ CallSteps

\* one call, loop iteration by loop iteration, on an instance that selects
\* the chunker from the source and the sections or is given a name the
\* registry does not know; chunk() is synchronous: a call that can take a
\* step takes one
FairCall ==
    InitCalls({}, CallStrategies, {}, {})
        /\ [][NextCall]_vars /\ WF_vars(CallSteps)

(***************************************************************************)
(* Vocabulary of the properties.                                           *)
(***************************************************************************)
Returned == pc = "returned"
Finished == pc # "called"
Kind == chunker.kind

InSeq(x, seq) == \E i \in 1..Len(seq) : seq[i] = x
IsInfix(a, b) ==
    \E i \in 0..(Len(b) - Len(a)) : SubSeq(b, i + 1, i + Len(a)) = a
IsBlank(text) == strip(text) = <<>>

\* positions in the returned list of the chunks made from section k
ChunksOf(k) == {i \in 1..Len(chunks) : packing[i].section = k}
KindsOf(k) == {packing[i].piece.kind : i \in ChunksOf(k)}
Oversized(k) == _estimate_tokens(sections[k].content) > max_tokens

(***************************************************************************)
(* C1.  Index contract: in every returned chunk list of length N the chunk *)
(* at position i (from 0) has chunk_index = i and total_chunks = N,        *)
(* counted across all sections, for each strategy behind the facade.       *)
(***************************************************************************)
C1_IndexContract ==
    Returned =>
        \A i \in 1..Len(chunks) :
            /\ chunks[i].metadata.chunk_index = i - 1
            /\ chunks[i].metadata.total_chunks = Len(chunks)

C1_Witness ==
    /\ Returned
    /\ Len(sections) = 2
    /\ Cardinality(ChunksOf(1)) >= 2
    /\ ChunksOf(2) # {}
    /\ chunks[Len(chunks)].metadata.chunk_index = Len(chunks) - 1

(***************************************************************************)
(* C2.  Budget of the default chunker: every chunk StructureAwareChunker   *)
(* makes from a paragraph, heading or table section has token_count <=     *)
(* max_tokens, unless the chunk is one single word.                        *)
(***************************************************************************)
C2_BudgetDefault ==
    (Returned /\ Kind = "StructureAwareChunker") =>
        \A i \in 1..Len(chunks) :
            chunks[i].metadata.section_type # "code" =>
                \/ chunks[i].metadata.token_count <= max_tokens
                \/ Len(split(chunks[i].content)) = 1

(***************************************************************************)
(* C3.  Completeness of sentence, word and row packing.  For every section *)
(* with non-blank content chunked by StructureAwareChunker or by           *)
(* TabularDocumentChunker: when the section was split into row groups,     *)
(* the header and every data row is a line of one of its chunks; else      *)
(* every sentence is contained in one of its chunks, except that the       *)
(* default chunker splits a sentence above max_tokens into words, and then *)
(* every word of it is a word of one of the section's chunks.              *)
(***************************************************************************)
RowsComplete(k) ==
    \A r \in 1..Len(split_lines(sections[k].content)) :
        \E i \in ChunksOf(k) :
            InSeq(split_lines(sections[k].content)[r], split_lines(chunks[i].content))

SentenceComplete(k, sentence) ==
    IF Kind = "StructureAwareChunker" /\ _estimate_tokens(sentence) > max_tokens
    THEN \A w \in 1..Len(split(sentence)) :
            \E i \in ChunksOf(k) : InSeq(split(sentence)[w], split(chunks[i].content))
    ELSE \E i \in ChunksOf(k) : IsInfix(sentence, chunks[i].content)

SentencesComplete(k) ==
    \A n \in 1..Len(_split_into_sentences(sections[k].content)) :
        SentenceComplete(k, _split_into_sentences(sections[k].content)[n])

C3_PackingComplete ==
    (Returned /\ Kind \in {"StructureAwareChunker", "TabularDocumentChunker"}) =>
        \A k \in 1..Len(sections) :
            ~IsBlank(sections[k].content) =>
                IF "rows" \in KindsOf(k) THEN RowsComplete(k) ELSE SentencesComplete(k)

\* a section split by sentence packing, by word splitting or into row groups
C3_SplitBy(kind, chunkerKind) ==
    /\ Returned
    /\ Kind = chunkerKind
    /\ \E k \in 1..Len(sections) :
          /\ kind \in KindsOf(k)
          /\ Cardinality(ChunksOf(k)) >= 2

C3_Witness ==
    /\ C3_SplitBy("words", "StructureAwareChunker")
    /\ "sentences" \in KindsOf(1)
    /\ \E i \in ChunksOf(1) : chunks[i].metadata.token_count > max_tokens

C3_WitnessRows == C3_SplitBy("rows", "TabularDocumentChunker")
C3_WitnessFallback ==
    /\ C3_SplitBy("sentences", "TabularDocumentChunker")
    /\ sections[1].section_type = "table"

(***************************************************************************)
(* C4.  Completeness of code chunking: every line of a code section above  *)
(* max_tokens is a line of one of the chunks CodeDocumentChunker returns   *)
(* for it, with boundaries found or with the line-based fallback.  Stated  *)
(* for the lines that are not blank, the least the claim asks.             *)
(***************************************************************************)
LinesComplete(k) ==
    \A r \in 1..Len(split_lines(sections[k].content)) :
        ~IsBlank(split_lines(sections[k].content)[r]) =>
            \E i \in ChunksOf(k) :
                InSeq(split_lines(sections[k].content)[r],
                      split_lines(chunks[i].content))

C4_CodeComplete ==
    (Returned /\ Kind = "CodeDocumentChunker") =>
        \A k \in 1..Len(sections) :
            (sections[k].section_type = "code" /\ Oversized(k)) => LinesComplete(k)

(***************************************************************************)
(* C5.  No returned chunk has blank content: the content of every chunk is *)
(* non-empty after trimming whitespace.                                    *)
(***************************************************************************)
C5_NoBlankChunk ==
    Returned => \A i \in 1..Len(chunks) : ~IsBlank(chunks[i].content)

(***************************************************************************)
(* C6.  Fallback safety: with a valid strategy and at least one section    *)
(* whose content is not blank, chunk() returns at least one chunk.         *)
(***************************************************************************)
SomeContent == \E k \in 1..Len(sections) : ~IsBlank(sections[k].content)

C6_FallbackSafety ==
    (Finished /\ selected \in KnownStrategies /\ SomeContent) =>
        (Returned /\ Len(chunks) >= 1)

\* the part of C6 the code keeps: a call that returns does not return nothing
C6_ReturnsSomething ==
    (Returned /\ SomeContent) => Len(chunks) >= 1

(***************************************************************************)
(* C7.  Overlap bound of the default chunker: what a chunk made by         *)
(* sentence packing or word splitting repeats from the chunk closed before *)
(* it has an estimate <= overlap_tokens, and is nothing when               *)
(* overlap_tokens = 0.                                                     *)
(***************************************************************************)
CarriedText(i) ==
    join(<<" ">>, SubSeq(packing[i].piece.units, 1, packing[i].piece.carried))

C7_OverlapBounded ==
    (Returned /\ Kind = "StructureAwareChunker") =>
        \A i \in 1..Len(chunks) :
            packing[i].piece.kind \in {"sentences", "words"} =>
                /\ _estimate_tokens(CarriedText(i)) <= overlap_tokens
                /\ overlap_tokens = 0 => packing[i].piece.carried = 0

(***************************************************************************)
(* C8.  Header of table chunks: for a table section above max_tokens whose *)
(* header satisfies header_tokens + overlap_tokens < max_tokens, every     *)
(* chunk TabularDocumentChunker returns for it has the header as its first *)
(* line and at least one more line.                                        *)
(***************************************************************************)
HeaderOf(k) == split_lines(sections[k].content)[1]
HeaderFits(k) == _estimate_tokens(HeaderOf(k)) + overlap_tokens < max_tokens

C8_HeaderFirst ==
    (Returned /\ Kind = "TabularDocumentChunker") =>
        \A k \in 1..Len(sections) :
            (sections[k].section_type = "table" /\ Oversized(k) /\ HeaderFits(k)) =>
                \A i \in ChunksOf(k) :
                    /\ split_lines(chunks[i].content)[1] = HeaderOf(k)
                    /\ Len(split_lines(chunks[i].content)) >= 2

C8_Witness ==
    /\ Returned
    /\ Kind = "TabularDocumentChunker"
    /\ \E k \in 1..Len(sections) :
          /\ sections[k].section_type = "table"
          /\ Oversized(k)
          /\ HeaderFits(k)
          /\ HeaderOf(k) # <<>>
          /\ Cardinality(ChunksOf(k)) >= 2

(***************************************************************************)
(* C9.  chunk() on an empty section list returns an empty chunk list and   *)
(* raises nothing, for the strategies auto, default, code and tabular and  *)
(* any source.                                                             *)
(***************************************************************************)
C9_EmptyInput ==
    (Finished /\ sections = <<>> /\ strategy \in KnownStrategies \cup {"auto"}) =>
        (Returned /\ chunks = <<>> /\ error = "")

C9_Witness ==
    /\ Returned
    /\ sections = <<>>
    /\ strategy = "auto"
    /\ selected = "default"
    /\ chunks = <<>>

(***************************************************************************)
(* C10.  A strategy name that is none of default, code, tabular makes      *)
(* create_chunker raise ValueError before any section is chunked: no chunk *)
(* is created, no list is returned, no chunker is used in its place.       *)
(***************************************************************************)
C10_UnknownStrategyRaises ==
    (Finished /\ strategy \notin KnownStrategies \cup {"auto"}) =>
        /\ pc = "raised"
        /\ error = "ValueError"
        /\ chunker = NoChunker
        /\ chunks = <<>>
        /\ uuids = 0

C10_Witness ==
    /\ pc = "raised"
    /\ error = "ValueError"
    /\ selected \notin KnownStrategies
    /\ SomeContent

C10_WitnessEmpty ==
    /\ pc = "raised"
    /\ error = "ValueError"
    /\ sections = <<>>

(***************************************************************************)
(* C11.  A strategy other than "auto" given at construction is the         *)
(* strategy of every chunk() call, whatever the source extension and the   *)
(* section types: the chunker made is the one of that name, and no chunker *)
(* is made when the name is unknown.                                       *)
(***************************************************************************)
ChunkerNamed(name) ==
    CASE name = "code" -> "CodeDocumentChunker"
      [] name = "tabular" -> "TabularDocumentChunker"
      [] name = "default" -> "StructureAwareChunker"
      [] OTHER -> NoneVal

AllTables == \A k \in 1..Len(sections) : sections[k].section_type = "table"

C11_PinnedStrategyWins ==
    (Finished /\ strategy # "auto") =>
        /\ selected = strategy
        /\ Kind = ChunkerNamed(strategy)

C11_Witness ==
    /\ Returned
    /\ strategy = "default"
    /\ source = <<"d", ".", "c", "s", "v">>
    /\ Len(sections) >= 2
    /\ AllTables
    /\ Kind = "StructureAwareChunker"
    /\ Len(chunks) >= 2

(***************************************************************************)
(* C12.  With strategy "auto" the text after the last "." of the source,   *)
(* compared without regard to case, decides: a source-code extension gives *)
(* "code" and a csv extension "tabular" whatever the sections hold; any    *)
(* other extension and a source without "." are looked up as "default".    *)
(***************************************************************************)
CodeSources == {<<"f", ".", "p", "y">>, <<"m", ".", "G", "O">>}
TabularSources == {<<"d", ".", "c", "s", "v">>}
PlainSources == {<<"n">>, <<"f", ".", "p", "y", ".", "t">>}

C12_ExtensionDecides ==
    (Finished /\ strategy = "auto") =>
        /\ source \in CodeSources => selected = "code"
        /\ source \in TabularSources => selected = "tabular"
        /\ source \in PlainSources =>
              /\ get_strategy(source, NoneVal) = "default"
              /\ selected \in {"default", "tabular"}

C12_Witness ==
    /\ Finished
    /\ strategy = "auto"
    /\ source = <<"m", ".", "G", "O">>
    /\ Len(sections) >= 2
    /\ AllTables
    /\ selected = "code"

(***************************************************************************)
(* C13.  With strategy "auto" the sections override the lookup exactly     *)
(* when the lookup gave "default" and more than half of the sections are   *)
(* tables: then "tabular" is selected; with half of them tables or fewer,  *)
(* "default" is kept, and a "code" lookup is kept whatever the sections.   *)
(***************************************************************************)
Tables == {k \in 1..Len(sections) : sections[k].section_type = "table"}
MostlyTables == 2 * Cardinality(Tables) > Len(sections)

C13_ContentOverride ==
    (Finished /\ strategy = "auto") =>
        /\ source \in PlainSources =>
              selected = IF MostlyTables THEN "tabular" ELSE "default"
        /\ source \in CodeSources => selected = "code"

C13_Witness ==
    /\ Returned
    /\ strategy = "auto"
    /\ source \in PlainSources
    /\ Len(sections) = 2
    /\ Cardinality(Tables) = 1
    /\ selected = "default"

C13_WitnessOverride ==
    /\ Returned
    /\ strategy = "auto"
    /\ source = <<"f", ".", "p", "y", ".", "t">>
    /\ Len(sections) = 3
    /\ Cardinality(Tables) = 2
    /\ selected = "tabular"
    /\ Kind = "TabularDocumentChunker"

(***************************************************************************)
(* C14.  Determinism: two chunk() calls on one instance with the same      *)
(* sections and source give the same outcome and the same chunk list,      *)
(* position by position the same id, content and metadata.                 *)
(***************************************************************************)
Done(c) == calls[c].pc \in {"returned", "raised"}
TwoCalls == DOMAIN calls = {"a", "b"}
SameArguments ==
    /\ calls["a"].sections = calls["b"].sections
    /\ calls["a"].source = calls["b"].source

WithoutIds(cs) ==
    [i \in 1..Len(cs) |-> [content |-> cs[i].content, metadata |-> cs[i].metadata]]

C14_Deterministic ==
    (TwoCalls /\ Done("a") /\ Done("b") /\ SameArguments) =>
        /\ calls["a"].pc = calls["b"].pc
        /\ calls["a"].error = calls["b"].error
        /\ calls["a"].chunks = calls["b"].chunks

\* the part of C14 the code keeps: the same list but for the ids
C14_SameButIds ==
    (TwoCalls /\ Done("a") /\ Done("b") /\ SameArguments) =>
        /\ calls["a"].pc = calls["b"].pc
        /\ calls["a"].error = calls["b"].error
        /\ WithoutIds(calls["a"].chunks) = WithoutIds(calls["b"].chunks)

(***************************************************************************)
(* C15.  Interleaved calls on one instance are independent: each call      *)
(* ends as it ends when run alone on its arguments, with the same error    *)
(* or the same chunk contents, metadata and indices.                       *)
(***************************************************************************)
Alone(c) ==
    DomainAwareChunker_chunk(strategy, max_tokens, overlap_tokens,
                             calls[c].sections, calls[c].source, 1)

AsAlone(c) ==
    /\ calls[c].error = Alone(c).err
    /\ (calls[c].pc = "returned") <=> (Alone(c).err = "")
    /\ calls[c].pc = "returned" =>
          WithoutIds(calls[c].chunks) = WithoutIds(Alone(c).chunks)

C15_CallsIndependent ==
    \A c \in DOMAIN calls : Done(c) => AsAlone(c)

IdsOf(c) == {calls[c].chunks[i].id : i \in 1..Len(calls[c].chunks)}

\* both calls returned chunks of two sections each, made by different
\* chunkers, and the second section of each was chunked after the first
\* section of the other
C15_Witness ==
    /\ TwoCalls
    /\ calls["a"].pc = "returned"
    /\ calls["b"].pc = "returned"
    /\ calls["a"].chunker.kind = "CodeDocumentChunker"
    /\ calls["b"].chunker.kind = "TabularDocumentChunker"
    /\ calls["a"].sections # calls["b"].sections
    /\ \E i \in IdsOf("a"), j \in IdsOf("b") : i < j
    /\ \E i \in IdsOf("a"), j \in IdsOf("b") : j < i
    /\ Len(calls["a"].chunks) >= 3
    /\ Len(calls["b"].chunks) >= 3

(***************************************************************************)
(* C16.  chunk() terminates, whatever the sections, the strategy and the   *)
(* budgets (overlap_tokens >= max_tokens included), because each iteration *)
(* of the sentence, word, line and row packing loops consumes exactly one  *)
(* new unit: a loop that has done n iterations is at its unit n + 1, never *)
(* past the end of its list, so the iterations of the loops of a section   *)
(* number at most the sentences, words, lines and rows of the section; and *)
(* in the chunks made, the units not carried over from the chunk before    *)
(* number at most the units of the section.  The call followed loop by     *)
(* loop ends as the call taken as one step does.                           *)
(***************************************************************************)
UnitsIn(section, kind) ==
    CASE kind = "sentences" -> Len(_split_into_sentences(section.content))
      [] kind = "words" -> Len(split(section.content))
      [] kind = "rows" -> Len(split_lines(section.content)) - 1
      [] kind \in {"lines", "units"} -> Len(split_lines(section.content))
      [] OTHER -> 1

RECURSIVE Consumed(_, _, _)
Consumed(items, k, kind) ==
    IF items = <<>> THEN 0
    ELSE (IF Head(items).section = k /\ Head(items).piece.kind = kind
          THEN Len(Head(items).piece.units) - Head(items).piece.carried
          ELSE 0)
         + Consumed(Tail(items), k, kind)

LoopKinds == {"sentences", "words", "rows", "lines", "units", "whole"}

UnitsConsumedOnce(c) ==
    \A k \in 1..Len(calls[c].sections) : \A kind \in LoopKinds :
        Consumed(calls[c].items, k, kind) <= UnitsIn(calls[c].sections[k], kind)

\* every loop the call is in has consumed one unit per iteration done
OneUnitPerStep(c) ==
    \A n \in 1..Len(calls[c].loops) :
        /\ calls[c].loops[n].steps = calls[c].loops[n].i - 1
        /\ calls[c].loops[n].i <= Len(calls[c].loops[n].units) + 1

\* the iterations done on the section the call is at, per unit of the input
StepsBounded(c) ==
    calls[c].pc = "looping" =>
        \A kind \in {"sentences", "words", "lines", "units", "rows"} :
            calls[c].steps[kind]
                <= UnitsIn(calls[c].sections[calls[c].k], kind)

C16_Terminates ==
    /\ [](\A c \in DOMAIN calls :
             UnitsConsumedOnce(c) /\ OneUnitPerStep(c) /\ StepsBounded(c))
    /\ [](\A c \in DOMAIN calls : Done(c) => AsAlone(c))
    /\ (calls # <<>>) ~> (\A c \in DOMAIN calls : Done(c))

\* chunks of section k of the call made by a loop over the given units
LoopChunks(k, kind) ==
    {i \in 1..Len(calls["a"].items) :
        /\ calls["a"].items[i].section = k
        /\ calls["a"].items[i].piece.kind = kind}

\* a returned call whose table was split by the row loop into several
\* groups, one starting with rows of the group before, and whose other
\* section was split by the sentence loop
C16_Witness ==
    /\ DOMAIN calls = {"a"}
    /\ calls["a"].pc = "returned"
    /\ Len(calls["a"].sections) = 2
    /\ calls["a"].sections[1].section_type = "table"
    /\ Cardinality(LoopChunks(1, "rows")) >= 2
    /\ \E i \in LoopChunks(1, "rows") : calls["a"].items[i].piece.carried >= 1
    /\ Cardinality(LoopChunks(2, "sentences")) >= 2

\* a returned call whose section was split by the sentence loop and the
\* word loop in chunks with overlap, overlap_tokens not below max_tokens
C16_WitnessOverlap ==
    /\ DOMAIN calls = {"a"}
    /\ calls["a"].pc = "returned"
    /\ overlap_tokens >= max_tokens
    /\ LoopChunks(1, "sentences") # {}
    /\ \E i \in LoopChunks(1, "words") : calls["a"].items[i].piece.carried >= 1

\* as above, for the line loop
C16_WitnessLines ==
    /\ DOMAIN calls = {"a"}
    /\ calls["a"].pc = "returned"
    /\ overlap_tokens >= max_tokens
    /\ \E i \in LoopChunks(1, "lines") : calls["a"].items[i].piece.carried >= 1

(***************************************************************************)
(* C17.  When the code chunker splits an oversized section in which a      *)
(* boundary line is detected, every chunk of the section begins with a     *)
(* boundary line and is a run of whole logical units: its content is       *)
(* consecutive units of the section (a boundary line with the lines that   *)
(* follow it up to the next boundary) joined by newlines, so no unit is    *)
(* cut by a chunk edge.                                                    *)
(***************************************************************************)
IsBoundaryLine(line, src) ==
    PatternMatches(PatternFamily(_detect_language(src)), strip(line))

UnitsOfSection(k) ==
    _find_boundaries(sections[k].content,
                     PatternFamily(_detect_language(source)))

SplitAtBoundaries(k) ==
    /\ chunker.kind = "CodeDocumentChunker"
    /\ _estimate_tokens(sections[k].content) > max_tokens
    /\ UnitsOfSection(k) # <<>>

C17_WholeUnits ==
    pc = "returned" =>
        \A i \in 1..Len(chunks) :
            SplitAtBoundaries(packing[i].section) =>
                /\ IsBoundaryLine(split_lines(chunks[i].content)[1], source)
                /\ \E a, z \in 1..Len(UnitsOfSection(packing[i].section)) :
                      /\ a <= z
                      /\ chunks[i].content =
                            join(<<"\n">>,
                                 SubSeq(UnitsOfSection(packing[i].section), a, z))

\* a section of a unit of two lines followed by another unit, split in a
\* chunk that holds the first unit and a chunk that repeats it as overlap
C17_Witness ==
    /\ pc = "returned"
    /\ \E i \in 1..Len(chunks) :
          /\ SplitAtBoundaries(packing[i].section)
          /\ packing[i].piece.carried >= 1
          /\ Len(UnitsOfSection(packing[i].section)) >= 2
          /\ Len(split_lines(UnitsOfSection(packing[i].section)[1])) >= 2
(***************************************************************************)
(* C18.  For each valid strategy (default, code, tabular) and any section  *)
(* list, chunk() returns a chunk list and raises no error: empty contents, *)
(* tables with blank rows or rows of estimated cost 0, and oversized code  *)
(* sections of every language with a pattern family included.              *)
(***************************************************************************)
C18_NoError ==
    (Finished /\ strategy \in KnownStrategies) => (Returned /\ error = "")

\* what the code does: with a valid strategy the only errors are the
\* re.error of the go pattern family on an oversized section of the code
\* chunker and the ZeroDivisionError of a table of the tabular chunker
\* whose rows cost 0 tokens on average
C18_ErrorsRaised ==
    (Finished /\ strategy \in KnownStrategies /\ ~Returned) =>
        \/ /\ error = "re.error"
           /\ strategy = "code"
           /\ PatternFamily(_detect_language(source)) = "go"
           /\ \E k \in 1..Len(sections) :
                 _estimate_tokens(sections[k].content) > max_tokens
        \/ /\ error = "ZeroDivisionError"
           /\ strategy = "tabular"
           /\ \E k \in 1..Len(sections) : sections[k].section_type = "table"
(***************************************************************************)
(* C19.  A chunk() call leaves its inputs unchanged.  No step of a call,   *)
(* under any strategy, changes the section list the call was given (its    *)
(* length, its order, and the content, page, heading and section_type of   *)
(* each section), its source, or the max_tokens, overlap_tokens and        *)
(* strategy of the chunker; so they are after the call what they were      *)
(* before.                                                                 *)
(***************************************************************************)
SameSection(s, t) ==
    /\ s.content = t.content
    /\ s.page = t.page
    /\ s.heading = t.heading
    /\ s.section_type = t.section_type

C19_InputsUnchanged ==
    [][/\ max_tokens' = max_tokens
       /\ overlap_tokens' = overlap_tokens
       /\ strategy' = strategy
       /\ \A c \in DOMAIN calls :
             /\ c \in DOMAIN calls'
             /\ calls'[c].source = calls[c].source
             /\ Len(calls'[c].sections) = Len(calls[c].sections)
             /\ \A k \in 1..Len(calls[c].sections) :
                   SameSection(calls'[c].sections[k], calls[c].sections[k])]_vars

\* a call of two sections has returned several chunks, another has raised
C19_Witness ==
    /\ calls # <<>>
    /\ \E c \in DOMAIN calls :
          /\ calls[c].pc = "returned"
          /\ Len(calls[c].sections) = 2
          /\ Len(calls[c].chunks) >= 2
    /\ \E c \in DOMAIN calls :
          /\ calls[c].pc = "raised"
          /\ calls[c].sections # <<>>
(***************************************************************************)
(* C20.  For the code chunker on a code section that exceeds max_tokens,   *)
(* every chunk of more than one code line has token_count <= max_tokens,   *)
(* in the packing of units and in the packing of lines; only a chunk of    *)
(* one single line may exceed the budget.                                  *)
(***************************************************************************)
CodeLines(i) == split_lines(chunks[i].content)

C20_CodeBudget ==
    (Returned /\ Kind = "CodeDocumentChunker") =>
        \A i \in 1..Len(chunks) :
            (/\ _estimate_tokens(sections[packing[i].section].content) > max_tokens
             /\ packing[i].piece.kind \in {"units", "lines"}
             /\ Len(CodeLines(i)) > 1)
                => chunks[i].metadata.token_count <= max_tokens

(***************************************************************************)
(* C21.  For the tabular chunker on a table section that exceeds           *)
(* max_tokens and is split into header-prefixed row groups, every chunk    *)
(* that holds the header and more than one data row has                    *)
(* token_count <= max_tokens; only a chunk of the header plus one row may  *)
(* exceed the budget.                                                      *)
(***************************************************************************)
RowChunk(i) ==
    /\ Kind = "TabularDocumentChunker"
    /\ packing[i].piece.kind = "rows"

C21_TableBudget ==
    Returned =>
        \A i \in 1..Len(chunks) :
            (RowChunk(i) /\ Len(packing[i].piece.units) > 1)
                => chunks[i].metadata.token_count <= max_tokens

(***************************************************************************)
(* C22.  _group_rows, for a non-empty row list and rows_per_chunk >= 1,    *)
(* returns groups of at most rows_per_chunk rows each, and each group      *)
(* after the first starts with the last max(1, rows_per_chunk // 2) rows   *)
(* of the group before it and no more.                                     *)
(***************************************************************************)
TableHeader(k) == split_lines(sections[k].content)[1]
TableRows(k) == Tail(split_lines(sections[k].content))
\* rows_per_chunk of a table section split into row groups
RowsPerChunk(k) ==
    Max(1, (max_tokens - _estimate_tokens(TableHeader(k)) - overlap_tokens)
               \div (SumTokens(TableRows(k)) \div Len(TableRows(k))))

GroupOverlapsBefore(i, n) ==
    /\ packing[i].piece.carried = Min(n, Len(packing[i - 1].piece.units))
    /\ SubSeq(packing[i].piece.units, 1, packing[i].piece.carried)
          = PyLast(packing[i - 1].piece.units, packing[i].piece.carried)

GroupAsStated(i) ==
    LET rows_per_chunk == RowsPerChunk(packing[i].section)
    IN /\ Len(packing[i].piece.units) <= rows_per_chunk
       /\ (i > 1 /\ RowChunk(i - 1) /\ packing[i - 1].section = packing[i].section)
             => GroupOverlapsBefore(i, Max(1, rows_per_chunk \div 2))

C22_GroupRows ==
    Returned => \A i \in 1..Len(chunks) : RowChunk(i) => GroupAsStated(i)

\* what the code does: the groups are as stated when rows_per_chunk >= 2
C22_GroupRowsFromTwo ==
    Returned =>
        \A i \in 1..Len(chunks) :
            (RowChunk(i) /\ RowsPerChunk(packing[i].section) >= 2)
                => GroupAsStated(i)

(***************************************************************************)
(* C23.  For a table section whose content exceeds max_tokens, the tabular *)
(* chunker takes the sentence-based fallback on the whole section exactly  *)
(* when the token cost of the header alone exceeds max_tokens; in every    *)
(* other case it emits header-prefixed row groups.                         *)
(***************************************************************************)
OversizedTable(k) ==
    /\ sections[k].section_type = "table"
    /\ _estimate_tokens(sections[k].content) > max_tokens

C23_FallbackWhenHeaderExceeds ==
    (Finished /\ Kind = "TabularDocumentChunker") =>
        \A k \in 1..Len(sections) :
            OversizedTable(k) =>
                /\ Returned
                /\ KindsOf(k) = IF _estimate_tokens(TableHeader(k)) > max_tokens
                                THEN {"sentences"} ELSE {"rows"}

\* what the code does: the fallback is taken when the header and the
\* overlap budget leave no token for rows
C23_FallbackWhenNoRowBudget ==
    (Returned /\ Kind = "TabularDocumentChunker") =>
        \A k \in 1..Len(sections) :
            OversizedTable(k) =>
                KindsOf(k) = IF _estimate_tokens(TableHeader(k)) + overlap_tokens
                                    >= max_tokens
                             THEN {"sentences"} ELSE {"rows"}

(***************************************************************************)
(* C24.  For a non-table section and equal max_tokens and overlap_tokens,  *)
(* the tabular chunker produces the same sequence of chunk contents as     *)
(* the content splitting of the default chunker (_split_content) does for  *)
(* that section, a section with a sentence that alone exceeds max_tokens   *)
(* and a whitespace-only section included.                                 *)
(***************************************************************************)
\* the contents of the chunks made from section k, in the order returned
SectionContents(k) ==
    LET first == CHOOSE i \in ChunksOf(k) : \A j \in ChunksOf(k) : i <= j
    IN [j \in 1..Cardinality(ChunksOf(k)) |-> chunks[first + j - 1].content]

PieceContents(pieces) == [j \in 1..Len(pieces) |-> pieces[j].content]

AsSplitContent(k) ==
    SectionContents(k)
        = PieceContents(_split_content(sections[k].content, max_tokens,
                                       overlap_tokens))

C24_SimpleAsDefault ==
    (Returned /\ Kind = "TabularDocumentChunker") =>
        \A k \in 1..Len(sections) :
            sections[k].section_type # "table" => AsSplitContent(k)

HasLongSentence(k) ==
    \E j \in 1.. Len(_split_into_sentences(sections[k].content)) :
        _estimate_tokens(_split_into_sentences(sections[k].content)[j])
            > max_tokens

\* what the code does: the two agree on a section that is not blank and
\* either fits max_tokens or has no sentence above max_tokens
C24_SimpleAsDefaultOnShortSentences ==
    (Returned /\ Kind = "TabularDocumentChunker") =>
        \A k \in 1..Len(sections) :
            (/\ sections[k].section_type # "table"
             /\ ~IsBlank(sections[k].content)
             /\ \/ _estimate_tokens(sections[k].content) <= max_tokens
                \/ ~HasLongSentence(k))
                => AsSplitContent(k)

(***************************************************************************)
(* C25.  The overlap-sentence selector.  Where sentence packing closes a   *)
(* chunk and seeds the next, the sentences the next chunk starts with are  *)
(* a contiguous suffix of the closed chunk's sentence list in the original *)
(* order, their per-sentence estimates sum to at most overlap_tokens, and  *)
(* the suffix is maximal: it is the whole list, or the next earlier        *)
(* sentence would take the sum above overlap_tokens.  It is empty when the *)
(* last sentence alone exceeds overlap_tokens.                             *)
(***************************************************************************)
\* chunk i was seeded by the selector from chunk i - 1, closed before it
SeededFromPrevious(i) ==
    /\ i > 1
    /\ packing[i].piece.kind = "sentences"
    /\ packing[i - 1].piece.kind = "sentences"
    /\ packing[i - 1].section = packing[i].section

SelectedOverlap(i) ==
    SubSeq(packing[i].piece.units, 1, packing[i].piece.carried)

IsMaximalSuffix(overlap, sentences, ov) ==
    LET n == Len(sentences)
        m == Len(overlap)
    IN /\ m <= n
       /\ overlap = SubSeq(sentences, n - m + 1, n)
       /\ SumTokens(overlap) <= ov
       /\ \/ m = n
          \/ SumTokens(overlap) + _estimate_tokens(sentences[n - m]) > ov
       /\ _estimate_tokens(sentences[n]) > ov => overlap = <<>>

C25_OverlapSelector ==
    Returned =>
        \A i \in 1..Len(chunks) :
            SeededFromPrevious(i) =>
                /\ SelectedOverlap(i)
                      = _get_overlap_sentences(packing[i - 1].piece.units,
                                               overlap_tokens)
                /\ IsMaximalSuffix(SelectedOverlap(i), packing[i - 1].piece.units,
                                   overlap_tokens)

\* the selector returned a proper, non-empty suffix of a closed chunk
C25_Witness ==
    /\ Returned
    /\ \E i \in 1..Len(chunks) :
          /\ SeededFromPrevious(i)
          /\ packing[i].piece.carried >= 1
          /\ packing[i].piece.carried < Len(packing[i - 1].piece.units)

\* the selector returned nothing: the last sentence alone exceeds the overlap
C25_WitnessEmpty ==
    /\ Returned
    /\ \E i \in 1..Len(chunks) :
          /\ SeededFromPrevious(i)
          /\ packing[i].piece.carried = 0
          /\ overlap_tokens >= 1

(***************************************************************************)
(* C26.  When the default chunker splits one paragraph section into        *)
(* several chunks by sentence packing, every chunk after the first begins  *)
(* with at least one trailing sentence of the chunk before it, also when   *)
(* overlap_tokens is smaller than the last sentence of that chunk.         *)
(***************************************************************************)
C26_SharesASentence ==
    (Returned /\ Kind = "StructureAwareChunker") =>
        \A i \in 1..Len(chunks) :
            (/\ SeededFromPrevious(i)
             /\ sections[packing[i].section].section_type = "paragraph")
                => /\ packing[i].piece.carried >= 1
                   /\ SelectedOverlap(i)
                         = PyLast(packing[i - 1].piece.units,
                                  packing[i].piece.carried)

\* what the code does: the next chunk shares a sentence exactly when the
\* last sentence of the closed chunk fits overlap_tokens
C26_SharesWhenItFits ==
    (Returned /\ Kind = "StructureAwareChunker") =>
        \A i \in 1..Len(chunks) :
            SeededFromPrevious(i) =>
                LET closed == packing[i - 1].piece.units
                IN packing[i].piece.carried >= 1
                      <=> _estimate_tokens(closed[Len(closed)]) <= overlap_tokens

(***************************************************************************)
(* C27.  In the structure-based packing of the code chunker the overlap    *)
(* carried from a closed chunk into the next is a fixed small window of    *)
(* its trailing lines: at most 3 lines of code are repeated at the start   *)
(* of the next chunk, whatever the size of the units in the closed chunk.  *)
(***************************************************************************)
\* the lines a chunk repeats from the chunk closed before it
RepeatedLines(piece) ==
    IF piece.carried = 0 THEN <<>>
    ELSE split_lines(join(<<"\n">>, SubSeq(piece.units, 1, piece.carried)))

StructurePacked(c, i) ==
    /\ calls[c].pc = "returned"
    /\ calls[c].chunker.kind = "CodeDocumentChunker"
    /\ calls[c].items[i].piece.kind = "units"

C27_OverlapWindow ==
    \A c \in DOMAIN calls :
        \A i \in 1..Len(calls[c].items) :
            StructurePacked(c, i) =>
                Len(RepeatedLines(calls[c].items[i].piece)) <= StructOverlap

\* what the code does: the window counts units, at most 3 of them, and the
\* repeated lines are the trailing lines of the closed chunk
C27_OverlapUnits ==
    \A c \in DOMAIN calls :
        \A i \in 1..Len(calls[c].items) :
            (StructurePacked(c, i) /\ calls[c].items[i].piece.carried >= 1) =>
                /\ calls[c].items[i].piece.carried <= StructOverlap
                /\ i > 1
                /\ RepeatedLines(calls[c].items[i].piece)
                      = PyLast(split_lines(calls[c].chunks[i - 1].content),
                               Len(RepeatedLines(calls[c].items[i].piece)))

(***************************************************************************)
(* C28.  Greedy packing in the default chunker closes a chunk only when it *)
(* must: for two consecutive chunks made by sentence packing of one        *)
(* section, the per-sentence estimates of the closed chunk plus the        *)
(* estimate of the first new (non-overlap) sentence of the next chunk      *)
(* exceed max_tokens.                                                      *)
(***************************************************************************)
FirstNewUnit(i) == packing[i].piece.units[packing[i].piece.carried + 1]

C28_ClosedOnlyWhenFull ==
    (Returned /\ Kind = "StructureAwareChunker") =>
        \A i \in 1..Len(chunks) :
            SeededFromPrevious(i) =>
                /\ packing[i].piece.carried < Len(packing[i].piece.units)
                /\ SumTokens(packing[i - 1].piece.units)
                      + _estimate_tokens(FirstNewUnit(i)) > max_tokens

\* a chunk of two sentences that fill the budget exactly was closed by a
\* third sentence, and the next chunk starts with overlap
C28_Witness ==
    /\ Returned
    /\ Kind = "StructureAwareChunker"
    /\ \E i \in 1..Len(chunks) :
          /\ SeededFromPrevious(i)
          /\ Len(packing[i - 1].piece.units) = 2
          /\ SumTokens(packing[i - 1].piece.units) = max_tokens
          /\ packing[i].piece.carried >= 1

(***************************************************************************)
(* C29.  Every chunk carries new content: for each strategy, each chunk of *)
(* a section holds at least one unit (sentence, word, code line or unit,   *)
(* table row) that is in no earlier chunk of the section, so no chunk is   *)
(* made only of the overlap repeated from the chunk before it.             *)
(***************************************************************************)
HasNewUnit(i) == packing[i].piece.carried < Len(packing[i].piece.units)

C29_NewContent ==
    Returned => \A i \in 1..Len(chunks) : HasNewUnit(i)

\* what the code does: only a row group of a table can be all overlap
C29_NewContentButRows ==
    Returned =>
        \A i \in 1..Len(chunks) :
            packing[i].piece.kind # "rows" => HasNewUnit(i)

(***************************************************************************)
(* C30.  Output order follows input order: in the list chunk() returns,    *)
(* for any strategy, the chunks of section i come before the chunks of     *)
(* section j whenever i < j, and within one section the units in their     *)
(* first occurrences (the units each chunk adds to the overlap it starts   *)
(* with) come in the order they have in the section content.               *)
(***************************************************************************)
\* a unit as the parts the content is read in: the lines of a code unit or
\* row, the words of a sentence, the content of a section kept whole
PartsOf(kind, text) ==
    CASE kind \in {"lines", "units", "rows"} -> split_lines(text)
      [] kind \in {"sentences", "words"} -> split(text)
      [] OTHER -> <<text>>

RECURSIVE PartsOfAll(_, _)
PartsOfAll(kind, units) ==
    IF units = <<>> THEN <<>>
    ELSE PartsOf(kind, Head(units)) \o PartsOfAll(kind, Tail(units))

\* the parts the chunks i.. of section k add, in the order returned
RECURSIVE FirstOccurrences(_, _)
FirstOccurrences(k, i) ==
    IF i > Len(packing) THEN <<>>
    ELSE IF packing[i].section # k THEN FirstOccurrences(k, i + 1)
    ELSE PartsOfAll(packing[i].piece.kind,
                    SubSeq(packing[i].piece.units, packing[i].piece.carried + 1,
                           Len(packing[i].piece.units)))
         \o FirstOccurrences(k, i + 1)

\* a is b with some elements left out, the order kept
RECURSIVE InOrderWithin(_, _)
InOrderWithin(a, b) ==
    IF a = <<>> THEN TRUE
    ELSE IF b = <<>> THEN FALSE
    ELSE IF Head(a) = Head(b) THEN InOrderWithin(Tail(a), Tail(b))
    ELSE InOrderWithin(a, Tail(b))

SectionInOrder(k) ==
    \A kind \in KindsOf(k) :
        InOrderWithin(FirstOccurrences(k, 1), PartsOf(kind, sections[k].content))

C30_OrderFollowsInput ==
    Returned =>
        /\ \A i, j \in 1..Len(chunks) :
              i < j => packing[i].section <= packing[j].section
        /\ \A k \in 1..Len(sections) : SectionInOrder(k)

\* two sections with chunks, one of them split in several chunks that add
\* different units
C30_Witness ==
    /\ Returned
    /\ Len(sections) = 2
    /\ ChunksOf(1) # {}
    /\ ChunksOf(2) # {}
    /\ \E k \in 1..2 :
          /\ Cardinality(ChunksOf(k)) >= 2
          /\ \E a, b \in 1..Len(FirstOccurrences(k, 1)) :
                FirstOccurrences(k, 1)[a] # FirstOccurrences(k, 1)[b]

====
